---- MODULE Spec2Model ----
(***************************************************************************)
(* pyMC_Repeater: the packet-handling data plane.                          *)
(*                                                                         *)
(* The model follows one received frame through PacketRouter._route_packet *)
(* (payload-type helpers, then the engine), RepeaterHandler.__call__       *)
(* (process_packet, flood_forward / direct_forward, the airtime gate, the  *)
(* packet record and the recent-packets ring) and the delayed send task    *)
(* created by schedule_retransmit.  Time is the integer number of seconds  *)
(* read by time.time().                                                    *)
(*                                                                         *)
(* pymc_core is an external library.  What the model takes from it:        *)
(*   - Packet.calculate_packet_hash() depends on the payload type and the  *)
(*     payload only (flood_forward checks the hash before it appends to    *)
(*     the path and marks it after, so the hash cannot cover the path);    *)
(*   - the route type is the two low bits of the header, so a packet has   *)
(*     one of four route types;                                            *)
(*   - parsers (advert, trace) are functions of the payload;               *)
(*   - PacketTimingUtils.estimate_airtime_ms is a positive function of     *)
(*     the frame.                                                          *)
(***************************************************************************)
EXTENDS Integers, Sequences, FiniteSets, TLC

VARIABLES
    now,              \* time.time(), seconds
    config,           \* the running config map: repeater.mode, mesh.global_flood_allow, duty_cycle.enforcement_enabled
    seen_packets,     \* RepeaterHandler.seen_packets: OrderedDict hash -> timestamp, as a sequence in insertion order
    tx_history,       \* AirtimeManager.tx_history: [(timestamp, airtime_ms), ...]
    rx_count,
    forwarded_count,
    dropped_count,
    recent_packets,   \* RepeaterHandler.recent_packets
    tasks,            \* delayed_send tasks created by schedule_retransmit and not yet run
    cfg_changes,      \* how many times the HTTP API has changed the running config
    forwarded_frames, \* history: the received frames a retransmit was scheduled for
    last,             \* history: what the last routed packet was and what was decided for it
    adverts,          \* the adverts table of the SQLite store: one row per neighbor public key
    advert_obs,       \* history: per public key, how many valid adverts were received and when the first was
    stored_keys,      \* the transport_keys table of the SQLite store, rows in created_at order
    keys_cache,       \* RepeaterHandler._transport_keys_cache and _transport_keys_cache_time
    router,           \* PacketRouter: the queue, the position of the worker, and a log of its steps
    radio,            \* history: the calls of dispatcher.send_packet, in order
    calc,             \* the arguments and the result of the last call of calculate_packet_score or _calculate_tx_delay
    discovery,        \* DiscoveryHelper: the response tasks created by _send_discovery_response and how each ended
    mqtt,             \* MeshCoreToMqttJwtPusher: _running, the client, the heartbeat thread, the token and the messages published
    storage,           \* StorageCollector: the rows of the packets table and the counts handed to the RRD store
    timer,   \* RepeaterHandler._background_task: the position of the timer loop and a pending cancel
    cad,   \* CADCalibrationEngine: running, the worker threads and the results
    api   \* history: the last request handled by the HTTP API and its response envelope

vars == <<now, config, seen_packets, tx_history, rx_count, forwarded_count,
          dropped_count, recent_packets, tasks, cfg_changes, forwarded_frames, last,
          adverts, advert_obs, stored_keys, keys_cache, router, radio, calc, discovery, mqtt, storage, timer, cad, api>>

----------------------------------------------------------------------------
(* Program constants *)

MAX_PATH_SIZE == 64
max_cache_size == 1000
max_recent_packets == 50
cache_ttl == 60
window_size == 60
max_airtime_per_minute == 3600
local_hash == 66

(* Bounds of the model *)

MaxRx == 2          \* rx_count stops here
MaxCfgChanges == 1  \* config changes made through the HTTP API in one behaviour
MaxTime == 120      \* the clock stops here
OtherHash == 16     \* a path byte that is not local_hash
AirtimeShort == 1800  \* estimate_airtime_ms of a frame with payload "A"
AirtimeLong == 1900   \* estimate_airtime_ms of a frame with any other payload
MaxCacheRx == 2        \* receptions after the duplicate cache has been filled
MaxAdverts == 2        \* adverts this node sends
MaxAdvertRx == 3       \* receptions beside the advert sends
MaxDiscoveryRx == 3    \* frames received in the discovery specification
MaxConnects == 2       \* connections the broker accepts
MaxMqttTime == 600     \* the clock of the publisher stops here
MaxStored == 3         \* record_packet calls
MaxStorageDays == 8    \* the clock of the storage specification stops here
StorageTickDays == 4   \* its step
MaxRingRx == 3         \* records created after the ring has been filled

TickStep == window_size

None == "None"

----------------------------------------------------------------------------
(* Packets *)

ROUTE_TYPE_TRANSPORT_FLOOD == "TRANSPORT_FLOOD"
ROUTE_TYPE_FLOOD == "FLOOD"
ROUTE_TYPE_DIRECT == "DIRECT"
ROUTE_TYPE_TRANSPORT_DIRECT == "TRANSPORT_DIRECT"

PAYLOAD_TYPE_TXT == "TXT_MSG"
PAYLOAD_TYPE_ADVERT == "ADVERT"
PAYLOAD_TYPE_TRACE == "TRACE"
PAYLOAD_TYPE_CONTROL == "CONTROL"

\* Payloads are named contents; "" is the empty payload (b"" or None)
EmptyPayload == ""

Rep(x, n) == [i \in 1..n |-> x]

Pkt(route, ptype, payload, path, tcode, snr) ==
    [route |-> route, ptype |-> ptype, payload |-> payload, path |-> path,
     tcode |-> tcode, snr |-> snr, do_not_retransmit |-> FALSE]

\* Packet.calculate_packet_hash()
PacketHash(p) == <<p.ptype, p.payload>>

\* Packet.has_transport_codes(); tcode 0 stands for no codes
has_transport_codes(p) == p.tcode # 0

\* PacketTimingUtils.estimate_airtime_ms(len(packet_bytes), radio_config)
estimate_airtime_ms(p) == IF p.payload = "A" THEN AirtimeShort ELSE AirtimeLong

\* the payloads of the adverts this node builds: each carries its own timestamp
OwnAdvertPayload(n) == "O" \o ToString(n)

OwnAdvertPayloads == {OwnAdvertPayload(n) : n \in 1..MaxAdverts}

\* AdvertHandler's parse result: payload "A" is a well-formed advert
AdvertValid(p) == p.payload = "A" \/ p.payload \in OwnAdvertPayloads

\* TraceHandler._parse_trace_payload: the trace route carried by the payload
TracePath(payload) ==
    CASE payload = "A" -> <<local_hash, OtherHash>>
      [] payload = "B" -> Rep(OtherHash, MAX_PATH_SIZE - 1) \o <<local_hash, OtherHash>>
      [] payload = "C" -> Rep(OtherHash, MAX_PATH_SIZE - 1) \o <<local_hash, local_hash>>
      [] OTHER -> <<>>
TraceValid(payload) == payload \in {"A", "B", "C"}

----------------------------------------------------------------------------
(* Airtime accountant *)

RECURSIVE SumAirtime(_)
SumAirtime(h) == IF h = <<>> THEN 0 ELSE Head(h).at + SumAirtime(Tail(h))

InWindow(e, t) == t - e.ts < window_size

\* can_transmit with the admission test written < instead of <=
can_transmit_strict(history, airtime_ms, cfg, t) ==
    IF ~cfg.enforcement_enabled
    THEN [ok |-> TRUE, wait |-> 0, history |-> history]
    ELSE LET kept == SelectSeq(history, LAMBDA e : InWindow(e, t))
         IN  [ok |-> SumAirtime(kept) + airtime_ms < max_airtime_per_minute,
              wait |-> 0, history |-> kept]

\* AirtimeManager.can_transmit -> [ok, wait, history]
can_transmit(history, airtime_ms, cfg, t) ==
    IF ~cfg.enforcement_enabled
    THEN [ok |-> TRUE, wait |-> 0, history |-> history]
    ELSE LET kept == SelectSeq(history, LAMBDA e : InWindow(e, t))
             current_airtime == SumAirtime(kept)
         IN  IF current_airtime + airtime_ms <= max_airtime_per_minute
             THEN [ok |-> TRUE, wait |-> 0, history |-> kept]
             ELSE IF kept # <<>>
                  THEN LET w == (kept[1].ts + window_size) - t
                       IN  [ok |-> FALSE, wait |-> IF w > 0 THEN w ELSE 0, history |-> kept]
                  ELSE [ok |-> FALSE, wait |-> 1, history |-> kept]

\* AirtimeManager.record_tx
record_tx(history, airtime_ms, t) == Append(history, [ts |-> t, at |-> airtime_ms])

----------------------------------------------------------------------------
(* Duplicate cache *)

CacheKeys(cache) == {cache[i].hash : i \in 1..Len(cache)}

\* RepeaterHandler.is_duplicate
is_duplicate(cache, p) == PacketHash(p) \in CacheKeys(cache)

\* mark_seen evicting the newest entry (popitem(last=True)) on overflow
mark_seen_pop_newest(cache, p, t) ==
    LET put == Append(cache, [hash |-> PacketHash(p), ts |-> t])
    IN  IF Len(put) > max_cache_size THEN SubSeq(put, 1, Len(put) - 1) ELSE put

\* RepeaterHandler.mark_seen
mark_seen(cache, p, t) ==
    LET h == PacketHash(p)
        put == IF h \in CacheKeys(cache)
               THEN [i \in 1..Len(cache) |->
                        IF cache[i].hash = h THEN [hash |-> h, ts |-> t] ELSE cache[i]]
               ELSE Append(cache, [hash |-> h, ts |-> t])
    IN  IF Len(put) > max_cache_size THEN Tail(put) ELSE put

\* RepeaterHandler.cleanup_cache (no caller in the repository)
cleanup_cache(cache, t) == SelectSeq(cache, LAMBDA e : ~(t - e.ts > cache_ttl))

----------------------------------------------------------------------------
(* Transport keys: the rows of storage.get_transport_keys(), in stored order.
   transport_key stands for the key material; calc_transport_code(key, packet)
   is the tag a frame sent under that key carries. *)

transport_keys ==
    << [id |-> 1, name |-> "k1", transport_key |-> 1, flood_policy |-> "deny"],
       [id |-> 2, name |-> "k2", transport_key |-> 2, flood_policy |-> "allow"],
       [id |-> 3, name |-> "k3", transport_key |-> 1, flood_policy |-> "allow"] >>

calc_transport_code(key, p) == key.transport_key

\* RepeaterHandler.__init__, line 99
transport_keys_cache_ttl == 60

\* the key loop letting a later "allow" key override an earlier matching "deny" key
MatchKey_any_allow(keys, p) ==
    IF \E i \in 1..Len(keys) : /\ keys[i].transport_key # 0
                                /\ p.tcode = calc_transport_code(keys[i], p)
                                /\ keys[i].flood_policy = "allow"
    THEN [ok |-> TRUE, reason |-> ""]
    ELSE [ok |-> FALSE, reason |-> "No matching transport code"]

\* RepeaterHandler._check_transport_codes, lines 479-515: the loop over the cached rows;
\* a row whose transport_key is empty (0 here) is skipped
RECURSIVE MatchKey(_, _)
MatchKey(keys, p) ==
    IF keys = <<>> THEN [ok |-> FALSE, reason |-> "No matching transport code"]
    ELSE IF Head(keys).transport_key = 0 THEN MatchKey(Tail(keys), p)
    ELSE IF p.tcode = calc_transport_code(Head(keys), p)
         THEN IF Head(keys).flood_policy = "allow"
              THEN [ok |-> TRUE, reason |-> ""]
              ELSE [ok |-> FALSE, reason |-> "Transport key flood policy denied"]
         ELSE MatchKey(Tail(keys), p)

\* RepeaterHandler.__init__, lines 97-98: no rows cached yet
NoKeyCache == [loaded |-> FALSE, keys |-> <<>>, time |-> 0]

\* a key cache that is read from the store once and never again
refresh_transport_keys_once(kc, stored, t) ==
    IF ~kc.loaded THEN [loaded |-> TRUE, keys |-> stored, time |-> t] ELSE kc

\* RepeaterHandler._check_transport_codes, lines 455-461: the rows are read again from the
\* store when none are cached or the cached ones are older than the TTL
refresh_transport_keys(kc, stored, t) ==
    IF ~kc.loaded \/ t - kc.time > transport_keys_cache_ttl
    THEN [loaded |-> TRUE, keys |-> stored, time |-> t]
    ELSE kc

\* RepeaterHandler._check_transport_codes on the rows of the (refreshed) cache
check_transport_codes(keys, p) ==
    IF keys = <<>>
    THEN [ok |-> FALSE, reason |-> "No transport keys configured"]
    ELSE IF ~has_transport_codes(p)
         THEN [ok |-> FALSE, reason |-> "No transport codes present"]
         ELSE MatchKey(keys, p)

----------------------------------------------------------------------------
(* Repeater engine: forwarding decisions.  Each returns
   [pkt: the packet forwarded or None-marker, ok, reason, cache] *)

\* RepeaterHandler.validate_packet
validate_packet(p) ==
    IF p.payload = EmptyPayload THEN [ok |-> FALSE, reason |-> "Empty payload"]
    ELSE IF Len(p.path) >= MAX_PATH_SIZE THEN [ok |-> FALSE, reason |-> "Path at max size"]
    ELSE [ok |-> TRUE, reason |-> ""]

Dropped(p, cache, reason) == [ok |-> FALSE, pkt |-> p, cache |-> cache, reason |-> reason]

\* flood_forward putting local_hash at the front of the path
flood_forward_prepend(p, cache, cfg, t) ==
    IF ~validate_packet(p).ok \/ ~cfg.global_flood_allow \/ is_duplicate(cache, p)
    THEN Dropped(p, cache, "Duplicate")
    ELSE LET q == [p EXCEPT !.path = <<local_hash>> \o @]
         IN  [ok |-> TRUE, pkt |-> q, cache |-> mark_seen(cache, q, t), reason |-> None]

\* RepeaterHandler.flood_forward
flood_forward(p, cache, cfg, t) ==
    LET v == validate_packet(p)
        policy == IF cfg.global_flood_allow THEN [ok |-> TRUE, reason |-> ""]
                  ELSE IF p.route \in {ROUTE_TYPE_FLOOD, ROUTE_TYPE_TRANSPORT_FLOOD}
                       THEN check_transport_codes(cfg.keys, p)
                       ELSE [ok |-> FALSE, reason |-> "Global flood policy disabled"]
    IN  IF ~v.ok THEN Dropped(p, cache, v.reason)
        ELSE IF ~policy.ok THEN Dropped(p, cache, policy.reason)
        ELSE IF is_duplicate(cache, p) THEN Dropped(p, cache, "Duplicate")
        ELSE LET q == [p EXCEPT !.path = Append(@, local_hash)]
             IN  [ok |-> TRUE, pkt |-> q, cache |-> mark_seen(cache, q, t), reason |-> None]

\* direct_forward popping the last path element instead of the first
direct_forward_pop_last(p, cache) ==
    IF Len(p.path) = 0 THEN Dropped(p, cache, "Direct: no path")
    ELSE IF p.path[1] # local_hash THEN Dropped(p, cache, "Direct: not for us")
    ELSE [ok |-> TRUE, pkt |-> [p EXCEPT !.path = SubSeq(@, 1, Len(@) - 1)],
          cache |-> cache, reason |-> None]

\* direct_forward without the next-hop test
direct_forward_any_hop(p, cache) ==
    IF Len(p.path) = 0 THEN Dropped(p, cache, "Direct: no path")
    ELSE [ok |-> TRUE, pkt |-> [p EXCEPT !.path = Tail(@)], cache |-> cache, reason |-> None]

\* RepeaterHandler.direct_forward
direct_forward(p, cache) ==
    IF Len(p.path) = 0 THEN Dropped(p, cache, "Direct: no path")
    ELSE IF p.path[1] # local_hash THEN Dropped(p, cache, "Direct: not for us")
    ELSE [ok |-> TRUE, pkt |-> [p EXCEPT !.path = Tail(@)], cache |-> cache, reason |-> None]

\* RepeaterHandler.process_packet
process_packet(p, cache, cfg, t) ==
    IF p.route \in {ROUTE_TYPE_FLOOD, ROUTE_TYPE_TRANSPORT_FLOOD}
    THEN flood_forward(p, cache, cfg, t)
    ELSE IF p.route \in {ROUTE_TYPE_DIRECT, ROUTE_TYPE_TRANSPORT_DIRECT}
         THEN direct_forward(p, cache)
         ELSE Dropped(p, cache, "Unknown route type")

\* RepeaterHandler._get_drop_reason
get_drop_reason(p, cache, cfg) ==
    IF is_duplicate(cache, p) THEN "Duplicate"
    ELSE IF p.payload = EmptyPayload THEN "Empty payload"
    ELSE IF Len(p.path) >= MAX_PATH_SIZE THEN "Path too long"
    ELSE IF p.route = ROUTE_TYPE_FLOOD /\ ~cfg.global_flood_allow
         THEN "Global flood policy disabled"
    ELSE IF p.route = ROUTE_TYPE_DIRECT /\ Len(p.path) = 0 THEN "Direct: no path"
    ELSE IF p.route = ROUTE_TYPE_DIRECT /\ p.path[1] # local_hash THEN "Direct: not for us"
    ELSE "Unknown"

----------------------------------------------------------------------------
(* Packet records and the recent-packets ring *)

Record(p, transmitted, is_dupe, drop_reason, is_trace) ==
    [packet_hash |-> PacketHash(p), type |-> p.ptype, route |-> p.route,
     transmitted |-> transmitted, is_duplicate |-> is_dupe,
     drop_reason |-> drop_reason, is_trace |-> is_trace, duplicates |-> <<>>]

\* index of the most recent ring record with this hash, 0 when there is none
LastIndexOf(ring, h) ==
    LET hits == {i \in 1..Len(ring) : ring[i].packet_hash = h}
    IN  IF hits = {} THEN 0 ELSE CHOOSE i \in hits : \A j \in hits : j <= i

\* the ring cut back by dropping its newest record
Trim_newest(ring) ==
    IF Len(ring) > max_recent_packets THEN SubSeq(ring, 1, Len(ring) - 1) ELSE ring

\* the ring is cut back to max_recent_packets by dropping its oldest record
Trim(ring) == IF Len(ring) > max_recent_packets THEN Tail(ring) ELSE ring

\* the ring update without the attach-to-original branch
AddRecord_append(ring, rec) == Trim(Append(ring, rec))

\* RepeaterHandler.__call__, lines 267-287: attach a duplicate to its original or append
AddRecord(ring, rec) ==
    LET idx == LastIndexOf(ring, rec.packet_hash)
    IN  Trim(IF rec.is_duplicate /\ Len(ring) > 0 /\ idx # 0
             THEN [ring EXCEPT ![idx].duplicates = Append(@, rec)]
             ELSE Append(ring, rec))

----------------------------------------------------------------------------
\* the drop reason of a duplicate overriding every other reason
final_drop_reason_dupe_first(is_dupe, reason) == IF is_dupe THEN "Duplicate" ELSE reason

\* RepeaterHandler.__call__, lines 186-192: a duplicate with no other reason is "Duplicate"
final_drop_reason(is_dupe, reason) == IF is_dupe /\ reason = None THEN "Duplicate" ELSE reason

\* the mode test comparing with a word the API never stores
is_monitor_mode_misspelt(cfg) == cfg.mode = "monitoring"

\* RepeaterHandler.__call__, lines 116-118: monitor_mode = mode == "monitor"
is_monitor_mode(cfg) == cfg.mode = "monitor"

(* RepeaterHandler.__call__ as a function of the engine's state:
   e = [seen, hist, ring, rx, fwd, drp, tasks] *)

EngineState == [seen |-> seen_packets, hist |-> tx_history, ring |-> recent_packets,
                rx |-> rx_count, fwd |-> forwarded_count, drp |-> dropped_count,
                tasks |-> tasks]

engine_call(p, e, cfg, t) ==
    LET monitor_mode == is_monitor_mode(cfg)
        res == IF monitor_mode THEN Dropped(p, e.seen, None)
               ELSE process_packet(p, e.seen, cfg, t)
        airtime_ms == estimate_airtime_ms(res.pkt)
        gate == IF res.ok THEN can_transmit(e.hist, airtime_ms, cfg, t)
                ELSE [ok |-> FALSE, wait |-> 0, history |-> e.hist]
        transmitted == res.ok /\ gate.ok
        reason0 == IF res.ok
                   THEN (IF gate.ok THEN None ELSE "Duty cycle limit")
                   ELSE IF monitor_mode THEN "Monitor mode"
                   ELSE IF res.reason # None THEN res.reason
                   ELSE get_drop_reason(res.pkt, res.cache, cfg)
        is_dupe == PacketHash(res.pkt) \in CacheKeys(res.cache) /\ ~transmitted
        drop_reason == final_drop_reason(is_dupe, reason0)
        rec == Record(res.pkt, transmitted, is_dupe, drop_reason, FALSE)
    IN  [state |-> [seen |-> res.cache,
                    hist |-> gate.history,
                    ring |-> AddRecord(e.ring, rec),
                    rx |-> e.rx + 1,
                    fwd |-> IF transmitted THEN e.fwd + 1 ELSE e.fwd,
                    drp |-> IF transmitted THEN e.drp ELSE e.drp + 1,
                    tasks |-> IF transmitted
                              THEN Append(e.tasks, [id |-> e.fwd + 1, pc |-> "sleep",
                                                    pkt |-> res.pkt, airtime_ms |-> airtime_ms])
                              ELSE e.tasks],
         forward |-> res.ok,          \* process_packet returned a packet
         can_tx |-> gate.ok,
         airtime_ms |-> airtime_ms,
         scheduled |-> transmitted,   \* schedule_retransmit was called
         pkt |-> res.pkt,
         record |-> rec]

----------------------------------------------------------------------------
(* Packet score and transmit delay.  Reals are scaled to integers: snr10 is the SNR in
   tenths of a dB, a score is its numerator over ScoreScale, delays are in milliseconds
   (rounded down), rnd10 is random.uniform(0, 5) in tenths, f10 is tx_delay_factor in
   tenths, direct_ms is direct_tx_delay_factor (seconds) in milliseconds. *)

\* 10 * 256 * 10: (snr - threshold) / 10 * (1 - len / 256) = (snr10 - thr10) * (256 - len) / ScoreScale
ScoreScale == 25600

\* snr_thresholds.get(spreading_factor, -10.0), in tenths of a dB
snr_threshold10(sf) ==
    CASE sf = 7 -> -75 [] sf = 8 -> -100 [] sf = 9 -> -125
      [] sf = 10 -> -150 [] sf = 11 -> -175 [] sf = 12 -> -200 [] OTHER -> -100

\* calculate_packet_score returning the product without max(0.0, min(1.0, score))
calculate_packet_score_unclamped(snr10, packet_len, spreading_factor) ==
    IF spreading_factor < 7 THEN 0
    ELSE IF snr10 < snr_threshold10(spreading_factor) THEN 0
    ELSE (snr10 - snr_threshold10(spreading_factor)) * (256 - packet_len)

\* RepeaterHandler.calculate_packet_score
calculate_packet_score(snr10, packet_len, spreading_factor) ==
    IF spreading_factor < 7 THEN 0
    ELSE LET threshold == snr_threshold10(spreading_factor)
         IN  IF snr10 < threshold THEN 0
             ELSE LET score == (snr10 - threshold) * (256 - packet_len)
                      capped == IF score < ScoreScale THEN score ELSE ScoreScale
                  IN  IF capped > 0 THEN capped ELSE 0

\* _calculate_tx_delay without the final min(delay_s, 5.0)
calculate_tx_delay_uncapped(route, airtime_ms, packet_len, snr10, rnd10, f10, direct_ms, use_score) ==
    LET delay0 == IF route = ROUTE_TYPE_FLOOD
                  THEN (airtime_ms * 13 * rnd10 * f10) \div 2500
                  ELSE direct_ms
        score == calculate_packet_score(snr10, packet_len, 8)
        inv == ScoreScale - score
        score_multiplier == IF inv > ScoreScale \div 5 THEN inv ELSE ScoreScale \div 5
    IN  IF delay0 >= 50 /\ use_score THEN (delay0 * score_multiplier) \div ScoreScale ELSE delay0

\* RepeaterHandler._calculate_tx_delay, in milliseconds
calculate_tx_delay(route, airtime_ms, packet_len, snr10, rnd10, f10, direct_ms, use_score) ==
    LET delay0 == IF route = ROUTE_TYPE_FLOOD
                  THEN (airtime_ms * 13 * rnd10 * f10) \div 2500
                  ELSE direct_ms
        score == calculate_packet_score(snr10, packet_len, 8)
        inv == ScoreScale - score
        score_multiplier == IF inv > ScoreScale \div 5 THEN inv ELSE ScoreScale \div 5
        delay1 == IF delay0 >= 50 /\ use_score
                  THEN (delay0 * score_multiplier) \div ScoreScale
                  ELSE delay0
    IN  IF delay1 < 5000 THEN delay1 ELSE 5000

----------------------------------------------------------------------------
(* Trace helper *)

\* a trace record logged with the received count alone
log_trace_record_uncounted(e, rec) ==
    [e EXCEPT !.ring = Trim(Append(e.ring, rec)),
              !.rx = @ + 1]

\* RepeaterHandler.log_trace_record
log_trace_record(e, rec) ==
    [e EXCEPT !.ring = Trim(Append(e.ring, rec)),
              !.rx = @ + 1,
              !.fwd = IF rec.transmitted THEN @ + 1 ELSE @,
              !.drp = IF rec.transmitted THEN @ ELSE @ + 1]

\* TraceHelper._should_forward_trace
should_forward_trace(p, trace_path, cache) ==
    /\ Len(p.path) < Len(trace_path)
    /\ trace_path[Len(p.path) + 1] = local_hash
    /\ ~is_duplicate(cache, p)

\* the SNR byte: int(snr * 4) clamped to a signed byte, stored unsigned
SnrByte(snr) ==
    LET scaled == snr * 4
        clamped == IF scaled > 127 THEN 127 ELSE IF scaled < -128 THEN -128 ELSE scaled
    IN  IF clamped >= 0 THEN clamped ELSE 256 + clamped

\* TraceHelper._forward_trace_packet -> [pkt, ring]
forward_trace_packet(p, ring) ==
    LET idx == LastIndexOf(ring, PacketHash(p))
        ring2 == IF idx = 0 THEN ring
                 ELSE [ring EXCEPT ![idx].transmitted = TRUE,
                                   ![idx].drop_reason = "trace_forwarded"]
        path1 == Append(p.path, SnrByte(p.snr))
        trace_path == TracePath(p.payload)
        path2 == IF TraceValid(p.payload) /\ Len(path1) < Len(trace_path)
                 THEN <<trace_path[Len(path1) + 1]>> \o path1
                 ELSE path1
    IN  [pkt |-> [p EXCEPT !.path = path2], ring |-> ring2]

\* TraceHelper.process_trace_packet -> [pkt, state]
process_trace_packet(p, e) ==
    IF p.route # ROUTE_TYPE_DIRECT \/ Len(p.path) >= MAX_PATH_SIZE \/ ~TraceValid(p.payload)
    THEN [pkt |-> p, state |-> e]
    ELSE LET trace_path == TracePath(p.payload)
             e1 == log_trace_record(e, Record(p, FALSE, FALSE, "trace_received", TRUE))
         IN  IF should_forward_trace(p, trace_path, e.seen)
             THEN LET f == forward_trace_packet(p, e1.ring)
                  IN  [pkt |-> f.pkt, state |-> [e1 EXCEPT !.ring = f.ring]]
             ELSE [pkt |-> p, state |-> e1]

----------------------------------------------------------------------------
(* Neighbor table: SQLiteHandler.store_advert, called through
   StorageCollector.record_advert by the advert helper and by the engine *)

NoRows == <<>>

local_pubkey == "K0"

\* the public key both advert parsers read from the payload
AdvertPubkey(p) == IF p.payload = "A" THEN "K1" ELSE local_pubkey

\* a valid advert of another node
AdvertFromNeighbor(p) ==
    p.ptype = PAYLOAD_TYPE_ADVERT /\ AdvertValid(p) /\ AdvertPubkey(p) # local_pubkey

\* SQLiteHandler.store_advert
store_advert(tbl, pubkey, t) ==
    IF pubkey \in DOMAIN tbl
    THEN [tbl EXCEPT ![pubkey] = [first_seen |-> @.first_seen, last_seen |-> t,
                                  advert_count |-> @.advert_count + 1,
                                  is_new_neighbor |-> FALSE]]
    ELSE [k \in DOMAIN tbl \cup {pubkey} |->
             IF k = pubkey
             THEN [first_seen |-> t, last_seen |-> t, advert_count |-> 1,
                   is_new_neighbor |-> TRUE]
             ELSE tbl[k]]

\* AdvertHelper.process_advert_packet, lines 62-111: the record_advert call
advert_helper_store(tbl, p, t) ==
    IF AdvertFromNeighbor(p) THEN store_advert(tbl, AdvertPubkey(p), t) ELSE tbl

\* RepeaterHandler._process_advert, called by __call__ for every ADVERT (line 195)
process_advert(tbl, p, t) ==
    IF p.ptype = PAYLOAD_TYPE_ADVERT /\ p.payload # EmptyPayload /\ AdvertFromNeighbor(p)
    THEN store_advert(tbl, AdvertPubkey(p), t)
    ELSE tbl

\* history: one more valid advert of pubkey was received at time t
Observe(obs, pubkey, t) ==
    IF pubkey \in DOMAIN obs
    THEN [obs EXCEPT ![pubkey] = [n |-> @.n + 1, first |-> @.first]]
    ELSE [k \in DOMAIN obs \cup {pubkey} |-> IF k = pubkey THEN [n |-> 1, first |-> t] ELSE obs[k]]

----------------------------------------------------------------------------
(* LetsMesh publisher *)

\* SQLiteHandler.cleanup_old_data, StorageCollector.cleanup_old_data: days = 7
cleanup_days == 7

\* MeshCoreToMqttJwtPusher.__init__ defaults
jwt_expiry_minutes == 10
status_interval == 60

\* the publisher after __init__: connect() not yet called
NoMqtt == [main |-> "new",          \* the thread that calls connect() and disconnect()
           running |-> FALSE,       \* self._running
           client |-> "new",        \* the paho client: new, connecting, connected, closed
           loop |-> FALSE,          \* the client's network loop thread is running
           hb |-> "none",           \* the heartbeat thread: none, test, publish, sleep, ended
           wake |-> 0,              \* when the heartbeat thread's sleep ends
           token |-> [issued |-> FALSE, iat |-> 0, exp |-> 0],
           connects |-> 0,          \* how many times on_connect has run
           published |-> <<>>]      \* history: the status messages handed to client.publish

----------------------------------------------------------------------------
(* Packet storage *)

\* an empty packets table, nothing handed to the RRD store yet
NoStorage == [rows |-> <<>>,        \* the packets table: [timestamp, type, transmitted]
              calls |-> 0,          \* record_packet calls made
              deleted |-> 0,        \* rows deleted by cleanup_old_data
              handed |-> <<>>,      \* history: the cumulative_counts of each update_packet_metrics call
              raised |-> FALSE]     \* the last record_packet call made by the engine raised

\* RepeaterHandler._start_background_tasks: the timer task created, suspended in its sleep
NoTimer == [pc |-> "sleep",       \* sleep, advert, restart_sleep, done
            cancel |-> FALSE,     \* _background_task.cancel() was called and not yet delivered
            restarts |-> 0,       \* timer tasks created by the restart path
            cancels |-> 0,        \* history: cancel() calls made,
            restarts_on_cancel |-> 0, cancel_at |-> None]  \* restarts and position at the last one

\* CADCalibrationEngine.__init__, lines 13-21
NoCad == [running |-> FALSE,       \* self.running
          results |-> {},          \* self.results, each with the worker thread that stored it
          workers |-> <<>>,        \* the calibration threads started, in order: [pc, tests]
          cleared_by |-> 0]        \* history: the thread that cleared running while a later one ran

\* no request handled yet
NoApi == [request |-> None,     \* the endpoint of the last request
          input |-> None,       \* the value of its body field
          success |-> FALSE,    \* the "success" member of the response envelope
          error |-> None,       \* the "error" member, None in a success envelope
          save_ok |-> TRUE,     \* whether _save_config_to_file returned
          before |-> [mode |-> "forward", global_flood_allow |-> TRUE,
                      enforcement_enabled |-> TRUE],   \* the running config before the request
          count |-> 0]

----------------------------------------------------------------------------
(* Discovery helper *)

\* DiscoveryHelper.__init__: node_type (2 = repeater)
node_type == 2

NoDiscovery == [requests |-> <<>>, pending |-> <<>>, done |-> <<>>]

\* the payloads ControlHandler parses as discovery requests
DiscoveryRequests == {"D1", "D2", "D3"}

\* the tag and the filter byte ControlHandler reads from a discovery request
DiscoveryTag(payload) ==
    CASE payload = "D1" -> 1
      [] payload = "D2" -> 2
      [] OTHER -> 3
DiscoveryFilter(payload) ==
    CASE payload = "D1" -> 4      \* 0x04: repeaters
      [] payload = "D2" -> 2      \* 0x02: another node type
      [] OTHER -> 6               \* 0x06: repeaters and another node type

\* _on_discovery_request, lines 67-70: (filter_byte & (1 << node_type)) != 0
filter_matches(filter_byte) == (filter_byte \div (2 ^ node_type)) % 2 = 1

\* PacketBuilder.create_discovery_response
DiscoveryResponse(tag) ==
    [route |-> ROUTE_TYPE_DIRECT, ptype |-> PAYLOAD_TYPE_CONTROL, payload |-> "R" \o ToString(tag),
     path |-> <<>>, tcode |-> 0, snr |-> 0, do_not_retransmit |-> FALSE]

\* DiscoveryHelper.control_handler -> _on_discovery_request -> _send_discovery_response:
\* a request whose filter matches creates the task _send_packet_async(response, tag)
on_discovery_request(d, p) ==
    IF p.ptype = PAYLOAD_TYPE_CONTROL /\ p.payload \in DiscoveryRequests
    THEN [d EXCEPT !.requests = Append(@, DiscoveryFilter(p.payload)),
                   !.pending = IF filter_matches(DiscoveryFilter(p.payload))
                               THEN Append(@, [tag |-> DiscoveryTag(p.payload),
                                               pkt |-> DiscoveryResponse(DiscoveryTag(p.payload))])
                               ELSE @]
    ELSE d

----------------------------------------------------------------------------
(* Packet router *)

mark_do_not_retransmit(p) == [p EXCEPT !.do_not_retransmit = TRUE]

\* AdvertHelper.process_advert_packet: an advert that does not parse is marked
process_advert_packet(p) == IF AdvertValid(p) THEN p ELSE mark_do_not_retransmit(p)

\* PacketRouter._route_packet, lines 104-123: the payload-type helper -> [pkt, state]
route_helpers(p, e) ==
    IF p.ptype = PAYLOAD_TYPE_TRACE THEN process_trace_packet(p, e)
    ELSE IF p.ptype = PAYLOAD_TYPE_CONTROL THEN [pkt |-> mark_do_not_retransmit(p), state |-> e]
    ELSE IF p.ptype = PAYLOAD_TYPE_ADVERT THEN [pkt |-> process_advert_packet(p), state |-> e]
    ELSE [pkt |-> p, state |-> e]

\* PacketRouter._route_packet: helper, then the engine
route_packet(p, e, cfg, t) ==
    LET h == route_helpers(p, e)
    IN  [helped |-> h, engine |-> engine_call(h.pkt, h.state, cfg, t)]

----------------------------------------------------------------------------
(* Received frames *)

FloodPackets ==
    { Pkt(ROUTE_TYPE_FLOOD, PAYLOAD_TYPE_TXT, "A", <<OtherHash>>, 0, 0),
      Pkt(ROUTE_TYPE_FLOOD, PAYLOAD_TYPE_TXT, "B", Rep(OtherHash, MAX_PATH_SIZE), 0, 0),
      Pkt(ROUTE_TYPE_FLOOD, PAYLOAD_TYPE_TXT, EmptyPayload, <<>>, 0, 0),
      Pkt(ROUTE_TYPE_TRANSPORT_FLOOD, PAYLOAD_TYPE_TXT, "B", <<OtherHash>>, 2, 0),
      Pkt(ROUTE_TYPE_TRANSPORT_FLOOD, PAYLOAD_TYPE_TXT, "C", <<>>, 1, 0) }

DirectPackets ==
    { Pkt(ROUTE_TYPE_DIRECT, PAYLOAD_TYPE_TXT, "A", <<local_hash, OtherHash>>, 0, 0),
      Pkt(ROUTE_TYPE_DIRECT, PAYLOAD_TYPE_TXT, "B", <<OtherHash, local_hash>>, 0, 0),
      Pkt(ROUTE_TYPE_TRANSPORT_DIRECT, PAYLOAD_TYPE_TXT, "B", <<local_hash>>, 2, 0),
      Pkt(ROUTE_TYPE_TRANSPORT_DIRECT, PAYLOAD_TYPE_TXT, "C", <<>>, 2, 0) }

HelperPackets ==
    { Pkt(ROUTE_TYPE_FLOOD, PAYLOAD_TYPE_CONTROL, "A", <<>>, 0, 0),
      Pkt(ROUTE_TYPE_FLOOD, PAYLOAD_TYPE_ADVERT, "A", <<OtherHash>>, 0, 0),
      Pkt(ROUTE_TYPE_FLOOD, PAYLOAD_TYPE_ADVERT, "B", <<OtherHash>>, 0, 0) }

TracePackets ==
    { Pkt(ROUTE_TYPE_DIRECT, PAYLOAD_TYPE_TRACE, "A", <<>>, 0, 3),
      Pkt(ROUTE_TYPE_DIRECT, PAYLOAD_TYPE_TRACE, "B", Rep(0, MAX_PATH_SIZE - 1), 0, -3),
      Pkt(ROUTE_TYPE_DIRECT, PAYLOAD_TYPE_TRACE, "C", Rep(0, MAX_PATH_SIZE - 1), 0, 40) }

Packets == FloodPackets \cup DirectPackets \cup HelperPackets \cup TracePackets

----------------------------------------------------------------------------
(* Specification *)

NoPacket == Pkt(None, None, EmptyPayload, <<>>, 0, 0)

NoLast == [valid |-> FALSE, rx |-> NoPacket, entry |-> NoPacket, pkt |-> NoPacket,
           forward |-> FALSE, can_tx |-> FALSE, airtime_ms |-> 0,
           record |-> Record(NoPacket, FALSE, FALSE, None, FALSE),
           cfg |-> [mode |-> "forward", global_flood_allow |-> TRUE, enforcement_enabled |-> TRUE,
                    keys |-> <<>>],
           keys_time |-> 0, keys_checked |-> FALSE,
           t |-> 0, seen_before |-> <<>>, hist_before |-> <<>>, hist_after |-> <<>>,
           ring_before |-> <<>>, tasks_before |-> <<>>, tasks_after |-> <<>>,
           drp_before |-> 0, fwd_before |-> 0, forwarded_before |-> FALSE,
           rx_on_rx |-> 0, ring_on_rx |-> <<>>]

NoCalc == [op |-> None]

\* PacketRouter.__init__ and start: an empty queue, the worker waiting in queue.get()
NoRouter == [queue |-> <<>>, pc |-> "get", item |-> <<>>, enqueued |-> 0, frames |-> <<>>,
             log |-> <<>>, out |-> <<>>, snap |-> <<>>,
             running |-> TRUE,      \* PacketRouter.running
             cancel |-> FALSE,      \* router_task.cancel() was called and not yet delivered
             stop |-> "idle",       \* the position of stop(): idle, await, returned
             stop_log |-> 0, stop_rx |-> 0]  \* history: Len(log) and rx_count when stop() returned

\* a worker that also gives up the event loop at "await self.schedule_retransmit(...)"
Suspended_at_schedule(r) == r.pc \in {"get", "helpers", "task"}

\* The worker coroutine is suspended, so that other coroutines of the event loop can run,
\* at the awaits that wait: queue.get() (packet_router.py line 88) and the helpers
\* (lines 110-123).  RepeaterHandler.__call__ holds one await, of schedule_retransmit
\* (engine.py line 163), a coroutine that only calls asyncio.create_task and returns.
Suspended(r) == r.pc \in {"get", "helpers", "done"}

Init ==
    /\ now = 0
    /\ config = [mode |-> "forward", global_flood_allow |-> TRUE, enforcement_enabled |-> TRUE]
    /\ seen_packets = <<>>
    /\ tx_history = <<>>
    /\ rx_count = 0
    /\ forwarded_count = 0
    /\ dropped_count = 0
    /\ recent_packets = <<>>
    /\ tasks = <<>>
    /\ cfg_changes = 0
    /\ forwarded_frames = {}
    /\ last = NoLast
    /\ calc = NoCalc
    /\ adverts = NoRows
    /\ advert_obs = NoRows
    /\ stored_keys = transport_keys
    /\ keys_cache = NoKeyCache
    /\ router = NoRouter
    /\ radio = <<>>
    /\ discovery = NoDiscovery
    /\ mqtt = NoMqtt
    /\ storage = NoStorage
    /\ timer = NoTimer
    /\ cad = NoCad
    /\ api = NoApi

\* the key rows _check_transport_codes works on when it is called at time t
KeysInUse(t) == refresh_transport_keys(keys_cache, stored_keys, t)

\* the config as the engine reads it, with the key rows a transport code check would use
EngineConfig == [mode |-> config.mode, global_flood_allow |-> config.global_flood_allow,
                 enforcement_enabled |-> config.enforcement_enabled,
                 keys |-> KeysInUse(now).keys]

\* RepeaterHandler.__call__ and flood_forward, lines 532-540: _check_transport_codes is
\* reached for a valid flood packet when the global flood policy is off
ChecksTransportCodes(p, cfg) ==
    /\ ~is_monitor_mode(cfg)
    /\ p.route \in {ROUTE_TYPE_FLOOD, ROUTE_TYPE_TRANSPORT_FLOOD}
    /\ validate_packet(p).ok
    /\ ~cfg.global_flood_allow

\* PacketRouter._route_packet applied to the engine's state: the values the routing of
\* frame p leaves in the engine, the key cache and the neighbor table
RouteOutcome(p) ==
    LET r == route_packet(p, EngineState, EngineConfig, now)
        e == r.engine.state
        checked == ChecksTransportCodes(r.helped.pkt, EngineConfig)
    IN  [seen_packets |-> e.seen,
         keys_cache |-> IF checked THEN KeysInUse(now) ELSE keys_cache,
         tx_history |-> e.hist,
         recent_packets |-> e.ring,
         rx_count |-> e.rx,
         forwarded_count |-> e.fwd,
         dropped_count |-> e.drp,
         tasks |-> e.tasks,
         last |-> [valid |-> TRUE, rx |-> p, entry |-> r.helped.pkt, pkt |-> r.engine.pkt,
                   forward |-> r.engine.forward, can_tx |-> r.engine.can_tx,
                   airtime_ms |-> r.engine.airtime_ms,
                   record |-> r.engine.record, cfg |-> EngineConfig, t |-> now,
                   keys_time |-> KeysInUse(now).time, keys_checked |-> checked,
                   seen_before |-> r.helped.state.seen,
                   hist_before |-> r.helped.state.hist, hist_after |-> e.hist,
                   ring_before |-> r.helped.state.ring,
                   tasks_before |-> tasks, tasks_after |-> e.tasks,
                   drp_before |-> r.helped.state.drp, fwd_before |-> r.helped.state.fwd,
                   forwarded_before |-> p \in forwarded_frames,
                   rx_on_rx |-> rx_count, ring_on_rx |-> recent_packets],
         forwarded_frames |-> IF r.engine.scheduled
                              THEN forwarded_frames \cup {p} ELSE forwarded_frames,
         adverts |-> process_advert(advert_helper_store(adverts, p, now), r.helped.pkt, now),
         advert_obs |-> IF AdvertFromNeighbor(p) THEN Observe(advert_obs, AdvertPubkey(p), now)
                        ELSE advert_obs,
         discovery |-> on_discovery_request(discovery, p)]

\* a store that raises ends __call__ before the record reaches the ring
record_after_store_abort(ring_before, ring_after, raised) ==
    IF raised THEN ring_before ELSE ring_after

\* RepeaterHandler.__call__, lines 260-287: storage.record_packet runs inside try/except
\* Exception, the error is logged, and the ring update that follows runs either way
record_after_store(ring_before, ring_after, raised) == ring_after

\* PacketRouter._route_packet run from its first to its last line; raised tells whether
\* storage.record_packet raised inside the engine
RouteEngine(p, raised) ==
    /\ \E o \in {RouteOutcome(p)} :
           /\ seen_packets' = o.seen_packets
           /\ keys_cache' = o.keys_cache
           /\ tx_history' = o.tx_history
           /\ recent_packets' = record_after_store(o.last.ring_before, o.recent_packets,
                                                   raised)
           /\ rx_count' = o.rx_count
           /\ forwarded_count' = o.forwarded_count
           /\ dropped_count' = o.dropped_count
           /\ tasks' = o.tasks
           /\ last' = o.last
           /\ forwarded_frames' = o.forwarded_frames
           /\ adverts' = o.adverts
           /\ advert_obs' = o.advert_obs
           /\ discovery' = o.discovery
    /\ UNCHANGED <<now, config, cfg_changes, stored_keys, radio, calc, mqtt, timer, cad, api>>

\* _route_packet with a store that takes the record
Route(p) == RouteEngine(p, FALSE) /\ UNCHANGED storage

\* The router worker takes one received frame through _route_packet
RoutePacket(p) == rx_count < MaxRx /\ Route(p) /\ UNCHANGED router

Remove(s, i) == [j \in 1..(Len(s) - 1) |-> IF j < i THEN s[j] ELSE s[j + 1]]

\* schedule_retransmit.delayed_send, lines 680-682: asyncio.sleep(delay) has returned and the
\* packet is handed to the radio
StartSend(i) ==
    /\ Suspended(router)
    /\ i \in 1..Len(tasks)
    /\ tasks[i].pc = "sleep"
    /\ tasks' = [tasks EXCEPT ![i].pc = "sending"]
    /\ radio' = Append(radio, [id |-> tasks[i].id, kind |-> "retransmit", pkt |-> tasks[i].pkt,
                               wait_for_ack |-> FALSE, result |-> "pending", record_tx |-> 0])
    /\ UNCHANGED <<now, config, seen_packets, tx_history, rx_count, forwarded_count,
                   dropped_count, recent_packets, cfg_changes, forwarded_frames, last,
                   adverts, advert_obs, stored_keys, keys_cache, router, calc, discovery, mqtt, storage, timer, cad, api>>

\* the radio log entry of the send of task id gets its outcome
SendReturned(log, id, sent_ok, recorded) ==
    [k \in 1..Len(log) |->
        IF log[k].id = id /\ log[k].result = "pending"
        THEN [log[k] EXCEPT !.result = IF sent_ok THEN "ok" ELSE "raised",
                            !.record_tx = IF recorded THEN @ + 1 ELSE @]
        ELSE log[k]]

\* delayed_send recording the airtime whether or not the send raised
records_tx_always(sent_ok, airtime_ms) == airtime_ms > 0

\* schedule_retransmit.delayed_send, lines 682-685: record_tx runs after send_packet has
\* returned, not when it raised
records_tx(sent_ok, airtime_ms) == sent_ok /\ airtime_ms > 0

\* schedule_retransmit.delayed_send, lines 682-692: the radio send returns or raises
DelayedSend(i, sent_ok) ==
    /\ Suspended(router)
    /\ i \in 1..Len(tasks)
    /\ tasks[i].pc = "sending"
    /\ tx_history' = IF records_tx(sent_ok, tasks[i].airtime_ms)
                     THEN record_tx(tx_history, tasks[i].airtime_ms, now)
                     ELSE tx_history
    /\ radio' = SendReturned(radio, tasks[i].id, sent_ok, records_tx(sent_ok, tasks[i].airtime_ms))
    /\ tasks' = Remove(tasks, i)
    /\ UNCHANGED <<now, config, seen_packets, rx_count, forwarded_count, dropped_count,
                   recent_packets, cfg_changes, forwarded_frames, last,
                   adverts, advert_obs, stored_keys, keys_cache, router, calc, discovery, mqtt, storage, timer, cad, api>>

\* Time passes.  A delayed send sleeps at most 5 s (_calculate_tx_delay caps the delay),
\* so every pending send has run before the clock has moved by TickStep.
Tick ==
    /\ Suspended(router)
    /\ tasks = <<>>
    /\ \A k \in 1..Len(radio) : radio[k].result # "pending"
    /\ now + TickStep <= MaxTime
    /\ now' = now + TickStep
    /\ UNCHANGED <<config, seen_packets, tx_history, rx_count, forwarded_count,
                   dropped_count, recent_packets, tasks, cfg_changes, forwarded_frames, last,
                   adverts, advert_obs, stored_keys, keys_cache, router, radio, calc, discovery, mqtt, storage, timer, cad, api>>

\* APIEndpoints.set_mode
SetMode(m) ==
    /\ cfg_changes < MaxCfgChanges
    /\ config.mode # m
    /\ config' = [config EXCEPT !.mode = m]
    /\ cfg_changes' = cfg_changes + 1
    /\ UNCHANGED <<now, seen_packets, tx_history, rx_count, forwarded_count, dropped_count,
                   recent_packets, tasks, forwarded_frames, last,
                   adverts, advert_obs, stored_keys, keys_cache, router, radio, calc, discovery, mqtt, storage, timer, cad, api>>

\* APIEndpoints.set_duty_cycle
SetDutyCycle(enabled) ==
    /\ cfg_changes < MaxCfgChanges
    /\ config.enforcement_enabled # enabled
    /\ config' = [config EXCEPT !.enforcement_enabled = enabled]
    /\ cfg_changes' = cfg_changes + 1
    /\ UNCHANGED <<now, seen_packets, tx_history, rx_count, forwarded_count, dropped_count,
                   recent_packets, tasks, forwarded_frames, last,
                   adverts, advert_obs, stored_keys, keys_cache, router, radio, calc, discovery, mqtt, storage, timer, cad, api>>

\* APIEndpoints.global_flood_policy
SetGlobalFloodPolicy(allow) ==
    /\ cfg_changes < MaxCfgChanges
    /\ config.global_flood_allow # allow
    /\ config' = [config EXCEPT !.global_flood_allow = allow]
    /\ cfg_changes' = cfg_changes + 1
    /\ UNCHANGED <<now, seen_packets, tx_history, rx_count, forwarded_count, dropped_count,
                   recent_packets, tasks, forwarded_frames, last,
                   adverts, advert_obs, stored_keys, keys_cache, router, radio, calc, discovery, mqtt, storage, timer, cad, api>>

Next ==
    \/ \E p \in Packets : RoutePacket(p)
    \/ \E i \in 1..Len(tasks) : StartSend(i)
    \/ \E i \in 1..Len(tasks), sent_ok \in BOOLEAN : DelayedSend(i, sent_ok)
    \/ Tick
    \/ \E m \in {"forward", "monitor"} : SetMode(m)
    \/ \E b \in BOOLEAN : SetDutyCycle(b)
    \/ \E b \in BOOLEAN : SetGlobalFloodPolicy(b)

Spec == Init /\ [][Next]_vars

----------------------------------------------------------------------------
(* Properties *)

FloodRoutes == {ROUTE_TYPE_FLOOD, ROUTE_TYPE_TRANSPORT_FLOOD}
DirectRoutes == {ROUTE_TYPE_DIRECT, ROUTE_TYPE_TRANSPORT_DIRECT}

\* the engine created a delayed_send task for the last routed packet
LastScheduled == Len(last.tasks_after) = Len(last.tasks_before) + 1
LastNotScheduled == last.tasks_after = last.tasks_before

\* the hash was in the duplicate cache, marked at most cache_ttl ago, when the engine got the packet
CachedWithinTtl ==
    \E i \in 1..Len(last.seen_before) :
        /\ last.seen_before[i].hash = PacketHash(last.entry)
        /\ last.t - last.seen_before[i].ts <= cache_ttl

\* C1: once a packet's hash is in the duplicate cache (within TTL), no later reception
\* of a packet with that hash, flood or direct, gets a retransmission scheduled.
C1_CachedNeverForwarded ==
    (last.valid /\ CachedWithinTtl) => LastNotScheduled

\* C2: with enforcement on, can_transmit evicts the ledger entries 60 s old or older and
\* admits iff the remaining sum plus airtime_ms is <= max_airtime_per_minute; with
\* enforcement off it always admits; so at an admitting decision the sum of the ledger
\* over the last 60 s is <= max_airtime_per_minute.
C2_Younger(e) == last.t - e.ts < 60
C2_Admission ==
    (last.valid /\ last.forward) =>
        IF last.cfg.enforcement_enabled
        THEN /\ last.hist_after = SelectSeq(last.hist_before, C2_Younger)
             /\ last.can_tx <=>
                    (SumAirtime(last.hist_after) + last.airtime_ms <= max_airtime_per_minute)
             /\ last.can_tx => SumAirtime(last.hist_after) <= max_airtime_per_minute
        ELSE last.can_tx

\* C2 witness: an admitting decision, enforcement on, that evicted an entry exactly 60 s old
C2_Witness ==
    /\ last.valid /\ last.forward /\ last.can_tx /\ last.cfg.enforcement_enabled
    /\ \E i \in 1..Len(last.hist_before) : last.t - last.hist_before[i].ts = 60
    /\ last.hist_after = <<>>

\* C3: a packet marked do-not-retransmit before it is handed to the engine never gets a
\* retransmission scheduled by the engine.
C3_DoNotRetransmitHonoured ==
    (last.valid /\ last.entry.do_not_retransmit) => LastNotScheduled

\* C4: whenever flood_forward returns a packet, the returned path is the received path
\* (the frame's path as the router took it from the queue, which no helper changes for a
\* flood route) with local_hash appended, and the packet's hash is in the duplicate cache.
C4_FloodForward ==
    (last.valid /\ last.forward /\ last.entry.route \in FloodRoutes) =>
        /\ last.entry.path = last.rx.path
        /\ last.pkt.path = Append(last.rx.path, local_hash)
        /\ PacketHash(last.pkt) \in CacheKeys(seen_packets)

\* C4 witness: a flood frame with a non-empty path was forwarded
C4_Witness ==
    /\ last.valid /\ last.forward /\ last.entry.route \in FloodRoutes
    /\ Len(last.entry.path) > 0 /\ LastScheduled

NotForUs ==
    /\ last.valid /\ last.entry.route \in DirectRoutes
    /\ Len(last.entry.path) > 0 /\ last.entry.path[1] # local_hash

\* C6, as stated: a direct-routed packet whose first path element differs from local_hash
\* is dropped: no retransmit task, dropped_count incremented, record transmitted=false and
\* drop_reason "Direct: not for us".
C6_Original ==
    NotForUs =>
        /\ LastNotScheduled
        /\ dropped_count = last.drp_before + 1
        /\ last.record.transmitted = FALSE
        /\ last.record.drop_reason = "Direct: not for us"

\* C6, amended: as C6, with drop_reason "Direct: not for us" in forward mode and
\* "Monitor mode" in monitor mode.
C6_Amended ==
    NotForUs =>
        /\ LastNotScheduled
        /\ dropped_count = last.drp_before + 1
        /\ last.record.transmitted = FALSE
        /\ last.record.drop_reason =
              IF last.cfg.mode = "monitor" THEN "Monitor mode" ELSE "Direct: not for us"

\* C6 witness: in forward mode a direct packet for another hop was routed
C6_Witness == NotForUs /\ last.cfg.mode = "forward"

\* C7: after a received packet has been processed by the helpers and the engine, its
\* path length is <= MAX_PATH_SIZE.
C7_PathBounded ==
    (last.valid /\ Len(last.rx.path) <= MAX_PATH_SIZE) => Len(last.pkt.path) <= MAX_PATH_SIZE

\* the second reception of a flood frame that was forwarded before, its hash still cached
SecondFlood ==
    /\ last.valid /\ last.rx.route \in FloodRoutes /\ last.forwarded_before
    /\ is_duplicate(last.seen_before, last.entry)

DupIndex == LastIndexOf(last.ring_before, PacketHash(last.entry))

\* the record went onto the duplicates list of ring record idx and not into the ring
AttachedTo(idx) ==
    /\ Len(recent_packets) = Len(last.ring_before)
    /\ recent_packets[idx].duplicates =
           Append(last.ring_before[idx].duplicates, last.record)
    /\ \A j \in 1..Len(recent_packets) : j # idx => recent_packets[j] = last.ring_before[j]

\* the first ring record with the hash: the record of the frame's first reception
FirstIndex ==
    LET hits == {i \in 1..Len(last.ring_before) :
                    last.ring_before[i].packet_hash = PacketHash(last.entry)}
    IN  IF hits = {} THEN 0 ELSE CHOOSE i \in hits : \A j \in hits : i <= j

PolicyAdmits ==
    last.cfg.global_flood_allow \/ check_transport_codes(last.cfg.keys, last.entry).ok

C9_DutyCycleDrop ==
    (last.valid /\ last.forward /\ ~last.can_tx) =>
        /\ LastNotScheduled
        /\ dropped_count = last.drp_before + 1
        /\ forwarded_count = last.fwd_before
        /\ last.record.transmitted = FALSE
        /\ last.record.drop_reason = "Duty cycle limit"

\* C9 witness: a flood forward decision was denied by the airtime gate
C9_Witness ==
    /\ last.valid /\ last.forward /\ ~last.can_tx
    /\ last.entry.route \in FloodRoutes

\* C10: is_duplicate(packet) is true iff the packet's hash is in the cache and the entry
\* is at most cache_ttl old.
C10_DuplicateWithinTtl ==
    \A p \in Packets :
        is_duplicate(seen_packets, p) <=>
            PacketHash(p) \in CacheKeys(cleanup_cache(seen_packets, now))

----------------------------------------------------------------------------
(* The repeater after a long run: FillCount distinct flood frames were received
   and forwarded, one per window.  The duplicate cache holds their hashes in
   arrival order and the ring holds the last max_recent_packets records. *)

FillPayload(i) == "F" \o ToString(i)

FillPacket(i) == Pkt(ROUTE_TYPE_FLOOD, PAYLOAD_TYPE_TXT, FillPayload(i), <<OtherHash>>, 0, 0)

\* the packet as flood_forward left it
FillForwarded(i) == [FillPacket(i) EXCEPT !.path = Append(@, local_hash)]

FillRing(n) ==
    LET first == IF n > max_recent_packets THEN n - max_recent_packets ELSE 0
    IN  [k \in 1..(n - first) |-> Record(FillForwarded(first + k), TRUE, FALSE, None, FALSE)]

InitFilled(n) ==
    /\ now = window_size * n
    /\ config = [mode |-> "forward", global_flood_allow |-> TRUE, enforcement_enabled |-> TRUE]
    /\ seen_packets = [i \in 1..n |->
                          [hash |-> PacketHash(FillPacket(i)), ts |-> window_size * (i - 1)]]
    /\ tx_history = <<[ts |-> window_size * (n - 1), at |-> estimate_airtime_ms(FillForwarded(n))]>>
    /\ rx_count = n
    /\ forwarded_count = n
    /\ dropped_count = 0
    /\ recent_packets = FillRing(n)
    /\ tasks = <<>>
    /\ cfg_changes = 0
    /\ forwarded_frames = {FillPacket(i) : i \in 1..n}
    /\ last = NoLast
    /\ calc = NoCalc
    /\ adverts = NoRows
    /\ advert_obs = NoRows
    /\ stored_keys = transport_keys
    /\ keys_cache = NoKeyCache
    /\ router = NoRouter
    /\ radio = <<>>
    /\ discovery = NoDiscovery
    /\ mqtt = NoMqtt
    /\ storage = NoStorage
    /\ timer = NoTimer
    /\ cad = NoCad
    /\ api = NoApi

InitCache == \E n \in {max_cache_size - 1, max_cache_size} : InitFilled(n)

\* frames with hashes that are not in the filled cache, and one that is
CachePackets ==
    { Pkt(ROUTE_TYPE_FLOOD, PAYLOAD_TYPE_TXT, "A", <<OtherHash>>, 0, 0),
      Pkt(ROUTE_TYPE_FLOOD, PAYLOAD_TYPE_TXT, "B", <<>>, 0, 0),
      Pkt(ROUTE_TYPE_FLOOD, PAYLOAD_TYPE_ADVERT, "A", <<OtherHash>>, 0, 0),
      Pkt(ROUTE_TYPE_TRANSPORT_FLOOD, PAYLOAD_TYPE_TXT, "C", <<>>, 1, 0),
      Pkt(ROUTE_TYPE_DIRECT, PAYLOAD_TYPE_TXT, "A", <<local_hash, OtherHash>>, 0, 0),
      FillPacket(2) }

RouteCachePacket(p) == rx_count < max_cache_size + MaxCacheRx /\ Route(p) /\ UNCHANGED router

NextCache ==
    \/ \E p \in CachePackets : RouteCachePacket(p)
    \/ \E i \in 1..Len(tasks) : StartSend(i)
    \/ \E i \in 1..Len(tasks), sent_ok \in BOOLEAN : DelayedSend(i, sent_ok)

SpecCache == InitCache /\ [][NextCache]_vars

\* flood_forward marked the last routed packet seen
LastMarked == last.valid /\ last.forward /\ last.entry.route \in FloodRoutes

LastEntry == [hash |-> PacketHash(last.entry), ts |-> last.t]

\* C11: after every mark_seen the duplicate cache holds at most max_cache_size (1000)
\* entries; an insertion that would exceed it evicts exactly one entry, the one with the
\* oldest first-seen timestamp, and never the entry just inserted.
C11_CacheBounded ==
    /\ Len(seen_packets) <= max_cache_size
    /\ LastMarked =>
          IF Len(last.seen_before) = max_cache_size
          THEN /\ seen_packets = Append(Tail(last.seen_before), LastEntry)
               /\ \A i \in 1..Len(last.seen_before) :
                      last.seen_before[1].ts <= last.seen_before[i].ts
          ELSE seen_packets = Append(last.seen_before, LastEntry)

\* C11 witness: an insertion into a full cache
C11_Witness == LastMarked /\ Len(last.seen_before) = max_cache_size

----------------------------------------------------------------------------
(* calculate_packet_score and _calculate_tx_delay applied to drawn arguments *)

Routes == {ROUTE_TYPE_TRANSPORT_FLOOD, ROUTE_TYPE_FLOOD, ROUTE_TYPE_DIRECT, ROUTE_TYPE_TRANSPORT_DIRECT}
Snr10s == {-300, -201, -200, -101, -100, -75, 0, 25, 100, 400}
PacketLens == {0, 1, 128, 255, 256, 257, 300}
SpreadingFactors == {5, 6, 7, 8, 9, 10, 11, 12, 13}
AirtimesMs == {1, 100, AirtimeLong}
Rnd10s == {0, 1, 25, 50}
DelayFactors10 == {0, 5, 10, 100}
DirectDelaysMs == {0, 40, 500, 5000, 9000}

CalculatePacketScore(snr10, packet_len, sf) ==
    /\ calc = NoCalc
    /\ calc' = [op |-> "score", snr10 |-> snr10, packet_len |-> packet_len, sf |-> sf,
                result |-> calculate_packet_score(snr10, packet_len, sf)]
    /\ UNCHANGED <<now, config, seen_packets, tx_history, rx_count, forwarded_count,
                   dropped_count, recent_packets, tasks, cfg_changes, forwarded_frames, last,
                   adverts, advert_obs, stored_keys, keys_cache, router, radio, discovery, mqtt, storage, timer, cad, api>>

CalculateTxDelay(route, airtime_ms, packet_len, snr10, rnd10, f10, direct_ms, use_score) ==
    /\ calc = NoCalc
    /\ calc' = [op |-> "tx_delay", route |-> route, airtime_ms |-> airtime_ms,
                packet_len |-> packet_len, snr10 |-> snr10, rnd10 |-> rnd10, f10 |-> f10,
                direct_ms |-> direct_ms, use_score |-> use_score,
                result |-> calculate_tx_delay(route, airtime_ms, packet_len, snr10, rnd10,
                                              f10, direct_ms, use_score)]
    /\ UNCHANGED <<now, config, seen_packets, tx_history, rx_count, forwarded_count,
                   dropped_count, recent_packets, tasks, cfg_changes, forwarded_frames, last,
                   adverts, advert_obs, stored_keys, keys_cache, router, radio, discovery, mqtt, storage, timer, cad, api>>

NextCalc ==
    \/ \E snr10 \in Snr10s, packet_len \in PacketLens, sf \in SpreadingFactors :
          CalculatePacketScore(snr10, packet_len, sf)
    \/ \E route \in Routes, airtime_ms \in AirtimesMs, packet_len \in {1, 300},
          snr10 \in {-101, 0, 400}, rnd10 \in Rnd10s, f10 \in DelayFactors10,
          direct_ms \in DirectDelaysMs, use_score \in BOOLEAN :
          CalculateTxDelay(route, airtime_ms, packet_len, snr10, rnd10, f10, direct_ms, use_score)

SpecCalc == Init /\ [][NextCalc]_vars

\* C12: the transmit delay computed for a forwarded packet is at most 5 seconds, for every
\* route type, airtime, delay factor, random draw and with the score adjustment on or off.
C12_DelayCapped == calc.op = "tx_delay" => calc.result <= 5000

\* C12 witness: a flood delay of more than 5 s before the cap (1900 ms airtime, draw 5.0,
\* factor 10.0 gives 49.4 s) comes out as 5 s
C12_Witness ==
    /\ calc.op = "tx_delay" /\ calc.route = ROUTE_TYPE_FLOOD /\ ~calc.use_score
    /\ (calc.airtime_ms * 13 * calc.rnd10 * calc.f10) \div 2500 > 5000
    /\ calc.result = 5000

\* the per-SF threshold table of the score, in tenths of a dB
C13_Threshold10(sf) ==
    IF sf = 7 THEN -75 ELSE IF sf = 8 THEN -100 ELSE IF sf = 9 THEN -125
    ELSE IF sf = 10 THEN -150 ELSE IF sf = 11 THEN -175 ELSE IF sf = 12 THEN -200 ELSE -100

\* C13: for every snr, packet length and spreading factor calculate_packet_score is in
\* [0, 1] (packet lengths above 256 included), and it is 0 when SF < 7 or when snr is below
\* the threshold of the SF.
C13_ScoreRange ==
    calc.op = "score" =>
        /\ 0 <= calc.result /\ calc.result <= ScoreScale
        /\ (calc.sf < 7 \/ calc.snr10 < C13_Threshold10(calc.sf)) => calc.result = 0

\* C13 witness: a packet longer than 256 bytes heard above the threshold scores 0, and a
\* short packet far above the threshold scores 1
C13_Witness ==
    /\ calc.op = "score" /\ calc.sf >= 7 /\ calc.snr10 > C13_Threshold10(calc.sf)
    /\ \/ calc.packet_len > 256 /\ calc.result = 0
       \/ calc.packet_len = 0 /\ calc.result = ScoreScale

\* C14: after N >= 1 received adverts of the same non-local public key the stored row has
\* advert_count = N, first_seen <= last_seen with first_seen the time of the first advert,
\* and is_new_neighbor true for N = 1 and false for N > 1.
C14_AdvertCount ==
    \A k \in DOMAIN advert_obs :
        /\ k \in DOMAIN adverts
        /\ adverts[k].advert_count = advert_obs[k].n
        /\ adverts[k].first_seen = advert_obs[k].first
        /\ adverts[k].first_seen <= adverts[k].last_seen
        /\ adverts[k].is_new_neighbor <=> (advert_obs[k].n = 1)

\* C15: while repeater.mode is "monitor" the engine calls neither flood_forward nor
\* direct_forward for a received packet: no retransmit is scheduled, the duplicate cache
\* and the packet's path are not modified, dropped_count is incremented, and the record
\* has transmitted=false with drop_reason "Monitor mode".
C15_MonitorMode ==
    (last.valid /\ last.cfg.mode = "monitor") =>
        /\ ~last.forward
        /\ LastNotScheduled
        /\ seen_packets = last.seen_before
        /\ last.pkt.path = last.entry.path
        /\ dropped_count = last.drp_before + 1
        /\ forwarded_count = last.fwd_before
        /\ last.record.transmitted = FALSE
        /\ last.record.drop_reason = "Monitor mode"

\* C15 witness: in monitor mode, a flood frame that flood_forward would have forwarded
C15_Witness ==
    /\ last.valid /\ last.cfg.mode = "monitor"
    /\ last.entry.route \in FloodRoutes
    /\ validate_packet(last.entry).ok
    /\ ~is_duplicate(last.seen_before, last.entry)

----------------------------------------------------------------------------
(* The transport key table changes through the HTTP API while packets are routed
   with the global flood policy off. *)

MaxKeyChanges == 2

\* frames without codes, with a code two keys compute, one key computes, no key computes
KeyPackets ==
    { Pkt(ROUTE_TYPE_FLOOD, PAYLOAD_TYPE_TXT, "A", <<OtherHash>>, 0, 0),
      Pkt(ROUTE_TYPE_TRANSPORT_FLOOD, PAYLOAD_TYPE_TXT, "B", <<OtherHash>>, 1, 0),
      Pkt(ROUTE_TYPE_TRANSPORT_FLOOD, PAYLOAD_TYPE_TXT, "C", <<>>, 2, 0),
      Pkt(ROUTE_TYPE_TRANSPORT_FLOOD, PAYLOAD_TYPE_TXT, "D", <<>>, 3, 0) }

\* a repeater configured with mesh.global_flood_allow false and an empty or a filled key table
InitKeys ==
    /\ now = 0
    /\ config = [mode |-> "forward", global_flood_allow |-> FALSE, enforcement_enabled |-> TRUE]
    /\ seen_packets = <<>>
    /\ tx_history = <<>>
    /\ rx_count = 0
    /\ forwarded_count = 0
    /\ dropped_count = 0
    /\ recent_packets = <<>>
    /\ tasks = <<>>
    /\ cfg_changes = 0
    /\ forwarded_frames = {}
    /\ last = NoLast
    /\ calc = NoCalc
    /\ adverts = NoRows
    /\ advert_obs = NoRows
    /\ stored_keys \in {<<>>, transport_keys}
    /\ keys_cache = NoKeyCache
    /\ router = NoRouter
    /\ radio = <<>>
    /\ discovery = NoDiscovery
    /\ mqtt = NoMqtt
    /\ storage = NoStorage
    /\ timer = NoTimer
    /\ cad = NoCad
    /\ api = NoApi

RouteKeyPacket(p) == rx_count < MaxRx /\ Route(p) /\ UNCHANGED router

\* the id of the next inserted row (AUTOINCREMENT: never one that was used before)
NextKeyId == Len(transport_keys) + cfg_changes + 1

\* APIEndpoints.transport_keys POST -> SQLiteHandler.create_transport_key: the new row has
\* the latest created_at, so get_transport_keys returns it last
CreateTransportKey(key, policy) ==
    /\ cfg_changes < MaxKeyChanges
    /\ stored_keys' = Append(stored_keys, [id |-> NextKeyId, name |-> "new",
                                           transport_key |-> key, flood_policy |-> policy])
    /\ cfg_changes' = cfg_changes + 1
    /\ UNCHANGED <<now, config, seen_packets, tx_history, rx_count, forwarded_count,
                   dropped_count, recent_packets, tasks, forwarded_frames, last,
                   adverts, advert_obs, keys_cache, router, radio, calc, discovery, mqtt, storage, timer, cad, api>>

\* APIEndpoints.transport_key PUT -> SQLiteHandler.update_transport_key
UpdateTransportKey(key_id, policy) ==
    /\ cfg_changes < MaxKeyChanges
    /\ \E i \in 1..Len(stored_keys) :
          /\ stored_keys[i].id = key_id
          /\ stored_keys[i].flood_policy # policy
          /\ stored_keys' = [stored_keys EXCEPT ![i].flood_policy = policy]
    /\ cfg_changes' = cfg_changes + 1
    /\ UNCHANGED <<now, config, seen_packets, tx_history, rx_count, forwarded_count,
                   dropped_count, recent_packets, tasks, forwarded_frames, last,
                   adverts, advert_obs, keys_cache, router, radio, calc, discovery, mqtt, storage, timer, cad, api>>

\* APIEndpoints.transport_key DELETE -> SQLiteHandler.delete_transport_key
DeleteTransportKey(key_id) ==
    /\ cfg_changes < MaxKeyChanges
    /\ \E i \in 1..Len(stored_keys) : stored_keys[i].id = key_id
    /\ stored_keys' = SelectSeq(stored_keys, LAMBDA k : k.id # key_id)
    /\ cfg_changes' = cfg_changes + 1
    /\ UNCHANGED <<now, config, seen_packets, tx_history, rx_count, forwarded_count,
                   dropped_count, recent_packets, tasks, forwarded_frames, last,
                   adverts, advert_obs, keys_cache, router, radio, calc, discovery, mqtt, storage, timer, cad, api>>

KeyIds == {stored_keys[i].id : i \in 1..Len(stored_keys)}

NextKeys ==
    \/ \E p \in KeyPackets : RouteKeyPacket(p)
    \/ \E i \in 1..Len(tasks) : StartSend(i)
    \/ \E i \in 1..Len(tasks), sent_ok \in BOOLEAN : DelayedSend(i, sent_ok)
    \/ Tick
    \/ \E key \in 0..2, policy \in {"allow", "deny"} : CreateTransportKey(key, policy)
    \/ \E key_id \in KeyIds, policy \in {"allow", "deny"} : UpdateTransportKey(key_id, policy)
    \/ \E key_id \in KeyIds : DeleteTransportKey(key_id)

SpecKeys == InitKeys /\ [][NextKeys]_vars

\* index of the first row, in stored order, whose computed code is the frame's code; 0 if none
FirstMatch(keys, p) ==
    LET hits == {i \in 1..Len(keys) : /\ keys[i].transport_key # 0
                                      /\ calc_transport_code(keys[i], p) = p.tcode}
    IN  IF hits = {} THEN 0 ELSE CHOOSE i \in hits : \A j \in hits : i <= j

\* C16: with mesh.global_flood_allow false a flood or transport-flood packet is forwarded
\* only if it carries transport codes and the first key, in stored order, of the key
\* cache whose code equals the packet's has flood_policy "allow"; in every other case
\* (matching key with "deny", no matching key, no keys, no codes) it is dropped; the
\* rows used are those of the cache, which is at most 60 s old when it is read.
C16_TransportCodes ==
    (last.valid /\ last.cfg.mode = "forward" /\ ~last.cfg.global_flood_allow
        /\ last.entry.route \in FloodRoutes) =>
        LET keys == last.cfg.keys
            m == FirstMatch(keys, last.entry)
            admitted == /\ has_transport_codes(last.entry)
                        /\ m # 0
                        /\ keys[m].flood_policy = "allow"
        IN  /\ last.forward => admitted
            /\ ~admitted => /\ ~last.forward
                            /\ ~last.record.transmitted
                            /\ last.tasks_after = last.tasks_before
                            /\ last.drp_before + 1 = dropped_count
            /\ last.keys_checked => /\ keys_cache.loaded
                                    /\ keys_cache.keys = keys
                                    /\ keys_cache.time = last.keys_time
                                    /\ last.t - last.keys_time <= transport_keys_cache_ttl

\* a frame whose code the store's rows would now admit is dropped because the cached rows,
\* read 60 s earlier, have a matching "deny" key before the matching "allow" key
C16_Witness ==
    /\ last.valid /\ last.cfg.mode = "forward" /\ ~last.cfg.global_flood_allow
    /\ last.entry.route = ROUTE_TYPE_TRANSPORT_FLOOD
    /\ last.keys_checked
    /\ last.t - last.keys_time = transport_keys_cache_ttl
    /\ last.cfg.keys # stored_keys
    /\ check_transport_codes(stored_keys, last.entry).ok
    /\ FirstMatch(last.cfg.keys, last.entry) # 0
    /\ \E i \in 1..Len(last.cfg.keys) :
          /\ i > FirstMatch(last.cfg.keys, last.entry)
          /\ calc_transport_code(last.cfg.keys[i], last.entry) = last.entry.tcode
          /\ last.cfg.keys[i].flood_policy = "allow"
    /\ ~last.forward
    /\ last.record.drop_reason = "Transport key flood policy denied"

----------------------------------------------------------------------------
(* The router queue and its worker: frames are enqueued by the receive callback while
   the worker takes each frame through _route_packet, one statement group at a time. *)

MaxEnqueue == 3

RouterPackets ==
    { Pkt(ROUTE_TYPE_FLOOD, PAYLOAD_TYPE_TXT, "A", <<OtherHash>>, 0, 0),
      Pkt(ROUTE_TYPE_DIRECT, PAYLOAD_TYPE_TXT, "A", <<local_hash, OtherHash>>, 0, 0),
      Pkt(ROUTE_TYPE_FLOOD, PAYLOAD_TYPE_ADVERT, "A", <<OtherHash>>, 0, 0) }

\* asyncio.Queue.get taking the newest item
queue_get_newest(q) == Len(q)

\* asyncio.Queue.get: the index of the item handed out, the oldest one
queue_get(q) == 1

\* PacketRouter.enqueue: queue.put on an unbounded queue; n numbers the frames in enqueue order
Enqueue(p) ==
    /\ Suspended(router)
    /\ router.enqueued < MaxEnqueue
    /\ router' = [router EXCEPT !.queue = Append(@, [n |-> router.enqueued + 1, pkt |-> p]),
                                !.enqueued = @ + 1,
                                !.frames = Append(@, p)]
    /\ UNCHANGED <<now, config, seen_packets, tx_history, rx_count, forwarded_count,
                   dropped_count, recent_packets, tasks, cfg_changes, forwarded_frames, last,
                   adverts, advert_obs, stored_keys, keys_cache, radio, calc, discovery, mqtt, storage, timer, cad, api>>

\* PacketRouter._process_queue, lines 88-89: queue.get() returns and _route_packet is entered
Dequeue ==
    /\ router.pc = "get"
    /\ router.running
    /\ router.queue # <<>>
    /\ LET i == queue_get(router.queue)
       IN  router' = [router EXCEPT !.queue = Remove(@, i),
                                    !.item = <<router.queue[i]>>,
                                    !.pc = "helpers",
                                    !.log = Append(@, [ev |-> "begin", n |-> router.queue[i].n,
                                                       waiting |-> Len(router.queue) - 1])]
    /\ UNCHANGED <<now, config, seen_packets, tx_history, rx_count, forwarded_count,
                   dropped_count, recent_packets, tasks, cfg_changes, forwarded_frames, last,
                   adverts, advert_obs, stored_keys, keys_cache, radio, calc, discovery, mqtt, storage, timer, cad, api>>

\* what the engine's data looks like to the worker after its own last statement
Snapshot(seen, hist, tsk) ==
    <<[seen_packets |-> seen, tx_history |-> hist, tasks |-> tsk, radio |-> radio,
       enqueued |-> router.enqueued]>>

\* PacketRouter._route_packet, line 132, and RepeaterHandler.__call__, lines 106-135: the
\* helper has returned, the engine is called and runs process_packet (duplicate check,
\* mark_seen, path change)
CallEngine ==
    /\ router.pc = "helpers"
    /\ \E o \in {RouteOutcome(router.item[1].pkt)} :
           /\ seen_packets' = o.seen_packets
           /\ keys_cache' = o.keys_cache
           /\ rx_count' = o.rx_count
           /\ router' = [router EXCEPT !.pc = "admit", !.out = <<o>>,
                                       !.snap = Snapshot(o.seen_packets, tx_history, tasks)]
    /\ UNCHANGED <<now, config, tx_history, forwarded_count, dropped_count, recent_packets,
                   tasks, cfg_changes, forwarded_frames, last,
                   adverts, advert_obs, stored_keys, radio, calc, discovery, mqtt, storage, timer, cad, api>>

\* RepeaterHandler.__call__, lines 144-150: airtime_mgr.can_transmit
Admit ==
    /\ router.pc = "admit"
    /\ tx_history' = router.out[1].tx_history
    /\ router' = [router EXCEPT !.pc = "task",
                                !.snap = Snapshot(seen_packets, router.out[1].tx_history, tasks)]
    /\ UNCHANGED <<now, config, seen_packets, rx_count, forwarded_count, dropped_count,
                   recent_packets, tasks, cfg_changes, forwarded_frames, last,
                   adverts, advert_obs, stored_keys, keys_cache, radio, calc, discovery, mqtt, storage, timer, cad, api>>

\* RepeaterHandler.__call__, lines 152-171: the counters and await schedule_retransmit,
\* which creates the delayed_send task
CreateTask ==
    /\ router.pc = "task"
    /\ tasks' = router.out[1].tasks
    /\ forwarded_count' = router.out[1].forwarded_count
    /\ dropped_count' = router.out[1].dropped_count
    /\ router' = [router EXCEPT !.pc = "record",
                                !.snap = Snapshot(seen_packets, tx_history, router.out[1].tasks)]
    /\ UNCHANGED <<now, config, seen_packets, tx_history, rx_count, recent_packets,
                   cfg_changes, forwarded_frames, last,
                   adverts, advert_obs, stored_keys, keys_cache, radio, calc, discovery, mqtt, storage, timer, cad, api>>

\* RepeaterHandler.__call__, lines 173-287: the packet record; _route_packet returns
RecordPacket ==
    /\ router.pc = "record"
    /\ recent_packets' = router.out[1].recent_packets
    /\ last' = router.out[1].last
    /\ forwarded_frames' = router.out[1].forwarded_frames
    /\ adverts' = router.out[1].adverts
    /\ advert_obs' = router.out[1].advert_obs
    /\ router' = [router EXCEPT !.pc = "get", !.item = <<>>, !.out = <<>>, !.snap = <<>>,
                                !.log = Append(@, [ev |-> "end", n |-> router.item[1].n,
                                                   waiting |-> Len(router.queue)])]
    /\ UNCHANGED <<now, config, seen_packets, tx_history, rx_count, forwarded_count,
                   dropped_count, tasks, cfg_changes, stored_keys, keys_cache, radio, calc, discovery, mqtt, storage, timer, cad, api>>

NextRouter ==
    \/ \E p \in RouterPackets : Enqueue(p)
    \/ Dequeue
    \/ CallEngine
    \/ Admit
    \/ CreateTask
    \/ RecordPacket
    \/ \E i \in 1..Len(tasks) : StartSend(i)
    \/ \E i \in 1..Len(tasks), sent_ok \in BOOLEAN : DelayedSend(i, sent_ok)
    \/ Tick

SpecRouter == Init /\ [][NextRouter]_vars

\* C17: the worker routes the enqueued frames one at a time and in enqueue order: the
\* log of its steps is begin 1, end 1, begin 2, end 2, ... (frame k's routing, helpers then
\* the engine's decision and record, has ended when frame k+1's begins), and the frames
\* still queued are the later ones, in order.
C17_OneAtATimeInOrder ==
    /\ \A i \in 1..Len(router.log) :
          /\ router.log[i].ev = IF i % 2 = 1 THEN "begin" ELSE "end"
          /\ router.log[i].n = (i + 1) \div 2
    /\ \A i \in 1..Len(router.queue) :
          router.queue[i].n = (Len(router.log) + 1) \div 2 + i
    /\ (router.pc = "get") <=> (Len(router.log) % 2 = 0)
    /\ router.pc # "get" => router.item[1].n = (Len(router.log) + 1) \div 2
    /\ router.pc # "get" => router.item[1].pkt = router.frames[router.item[1].n]
    /\ (router.pc = "get" /\ router.log # <<>>) =>
          /\ last.valid
          /\ last.rx = router.frames[Len(router.log) \div 2]
          /\ rx_count = Len(router.log) \div 2

\* frames were waiting in the queue while the first one was routed, one more arrived
\* during a routing, and all have been routed
C17_Witness ==
    /\ Len(router.log) = 2 * MaxEnqueue
    /\ router.log[1].waiting = 1
    /\ router.log[2].waiting = 2
    /\ router.pc = "get"
    /\ rx_count = MaxEnqueue
    /\ Len(recent_packets) >= 2

----------------------------------------------------------------------------
\* the radio log entries of the delayed send with this id
SendsOf(id) == {k \in 1..Len(radio) : radio[k].id = id}

\* C18: every admitted packet is handed to the radio at most once, only when the sleep of
\* its delayed send is over, and with wait_for_ack false; record_tx is called once for a
\* send that returned, after it returned, and never for a send that raised or is pending.
C18_SendOnceThenRecord ==
    /\ \A k \in 1..Len(radio) :
          /\ radio[k].wait_for_ack = FALSE
          /\ radio[k].id \in 1..forwarded_count
          /\ Cardinality(SendsOf(radio[k].id)) = 1
          /\ radio[k].result = "ok" => radio[k].record_tx = 1
          /\ radio[k].result \in {"raised", "pending"} => radio[k].record_tx = 0
          /\ radio[k].result = "pending" <=>
                \E i \in 1..Len(tasks) : tasks[i].id = radio[k].id /\ tasks[i].pc = "sending"
    /\ \A i \in 1..Len(tasks) :
          /\ tasks[i].pc = "sleep" => SendsOf(tasks[i].id) = {}
          /\ tasks[i].pc = "sending" => Cardinality(SendsOf(tasks[i].id)) = 1
          /\ \A j \in 1..Len(tasks) : tasks[i].id = tasks[j].id => i = j
    /\ Len(radio) + Cardinality({i \in 1..Len(tasks) : tasks[i].pc = "sleep"}) <= forwarded_count

\* one delayed send has returned and its airtime is in the ledger, another has raised and
\* left the ledger alone
C18_Witness ==
    /\ \E k \in 1..Len(radio) : radio[k].result = "ok" /\ radio[k].record_tx = 1
    /\ \E k \in 1..Len(radio) : radio[k].result = "raised" /\ radio[k].record_tx = 0
    /\ Len(tx_history) = 1
    /\ tasks = <<>>

----------------------------------------------------------------------------
\* the airtime the ledger holds for the window of window_size seconds that starts at t0
LedgerInWindow(t0) ==
    SumAirtime(SelectSeq(tx_history, LAMBDA e : t0 <= e.ts /\ e.ts < t0 + window_size))

\* C19: with enforcement on from the start, the airtime recorded in the ledger within any
\* 60-second window is at most max_airtime_per_minute, whatever the order of admission
\* decisions and delayed sends.
C19_LedgerWithinLimit ==
    (config.enforcement_enabled /\ cfg_changes = 0) =>
        \A k \in 1..Len(tx_history) : LedgerInWindow(tx_history[k].ts) <= max_airtime_per_minute

----------------------------------------------------------------------------
\* C20: from the duplicate check to the creation of the retransmit task the engine runs
\* without a suspension point: while the worker stands between these steps, the duplicate
\* cache, the airtime ledger, the pending sends, the radio log and the queue are exactly
\* as the worker's own last step left them, so no other packet's processing, timer or
\* delayed send has run in between.
C20_NoSuspension ==
    router.pc \in {"admit", "task"} =>
        /\ seen_packets = router.snap[1].seen_packets
        /\ tx_history = router.snap[1].tx_history
        /\ tasks = router.snap[1].tasks
        /\ radio = router.snap[1].radio
        /\ router.enqueued = router.snap[1].enqueued

\* the worker has admitted a packet and not yet created its task, while one delayed send
\* waits for its radio send to return and a frame waits in the queue
C20_Witness ==
    /\ router.pc = "task"
    /\ router.out[1].last.forward /\ router.out[1].last.can_tx
    /\ \E i \in 1..Len(tasks) : tasks[i].pc = "sending"
    /\ router.queue # <<>>

----------------------------------------------------------------------------
\* the delayed sends whose radio send raised
RaisedSends == {k \in 1..Len(radio) : radio[k].result = "raised"}

\* C21: a scheduled retransmit whose radio send raises ends up counted as dropped:
\* forwarded_count counts only the packets still pending or sent, and the packet record of
\* the failed packet does not say transmitted.
C21_FailedSendCountedDropped ==
    /\ forwarded_count = Len(tasks) + Cardinality({k \in 1..Len(radio) : radio[k].result = "ok"})
    /\ \A k \in RaisedSends :
          (last.valid /\ LastScheduled /\ radio[k].id = last.fwd_before + 1) =>
              /\ ~last.record.transmitted
              /\ dropped_count > last.drp_before

----------------------------------------------------------------------------
(* The node's own adverts: RepeaterDaemon.send_advert, run by the background timer of the
   engine or by the HTTP API, beside the reception of frames. *)

\* PacketBuilder.create_advert(..., route_type="flood"): the n-th advert of this node
OwnAdvert(n) == Pkt(ROUTE_TYPE_FLOOD, PAYLOAD_TYPE_ADVERT, OwnAdvertPayload(n), <<>>, 0, 0)

IsOwnAdvert(p) == p.ptype = PAYLOAD_TYPE_ADVERT /\ p.payload \in OwnAdvertPayloads

\* the sends of own adverts in the radio log
AdvertSends == {k \in 1..Len(radio) : radio[k].kind = "advert"}

\* RepeaterDaemon.send_advert, lines 313-329: the advert is built and handed to the radio
SendAdvert ==
    /\ Suspended(router)
    /\ Cardinality(AdvertSends) < MaxAdverts
    /\ radio' = Append(radio, [id |-> 0 - (Cardinality(AdvertSends) + 1), kind |-> "advert",
                               pkt |-> OwnAdvert(Cardinality(AdvertSends) + 1),
                               wait_for_ack |-> FALSE, result |-> "pending", record_tx |-> 0])
    /\ UNCHANGED <<now, config, seen_packets, tx_history, rx_count, forwarded_count,
                   dropped_count, recent_packets, tasks, cfg_changes, forwarded_frames, last,
                   adverts, advert_obs, stored_keys, keys_cache, router, calc, discovery, mqtt, storage, timer, cad, api>>

\* RepeaterDaemon.send_advert, lines 329-333: mark_seen follows the send that returned;
\* a send that raised leaves the function through the except branch
advert_mark_seen(cache, p, t, sent_ok) == IF sent_ok THEN mark_seen(cache, p, t) ELSE cache

\* RepeaterDaemon.send_advert, lines 329-341: dispatcher.send_packet returns or raises
AdvertSent(k, sent_ok) ==
    /\ Suspended(router)
    /\ k \in AdvertSends
    /\ radio[k].result = "pending"
    /\ radio' = [radio EXCEPT ![k].result = IF sent_ok THEN "ok" ELSE "raised"]
    /\ seen_packets' = advert_mark_seen(seen_packets, radio[k].pkt, now, sent_ok)
    /\ UNCHANGED <<now, config, tx_history, rx_count, forwarded_count,
                   dropped_count, recent_packets, tasks, cfg_changes, forwarded_frames, last,
                   adverts, advert_obs, stored_keys, keys_cache, router, calc, discovery, mqtt, storage, timer, cad, api>>

\* a neighbour's retransmission of an advert this node has put on the air: the frame leaves
\* the radio inside dispatcher.send_packet, the coroutine resumes some time after that
AdvertEchoes ==
    {[radio[k].pkt EXCEPT !.path = <<OtherHash>>] :
        k \in {j \in AdvertSends : radio[j].result \in {"pending", "ok"}}}

AdvertRxPackets ==
    { Pkt(ROUTE_TYPE_FLOOD, PAYLOAD_TYPE_TXT, "A", <<OtherHash>>, 0, 0),
      Pkt(ROUTE_TYPE_FLOOD, PAYLOAD_TYPE_ADVERT, "A", <<OtherHash>>, 0, 0) }

RouteAdvertPacket(p) == rx_count < MaxAdvertRx /\ Route(p) /\ UNCHANGED router

NextAdvert ==
    \/ SendAdvert
    \/ \E k \in AdvertSends, sent_ok \in BOOLEAN : AdvertSent(k, sent_ok)
    \/ \E p \in AdvertRxPackets \cup AdvertEchoes : RouteAdvertPacket(p)
    \/ \E i \in 1..Len(tasks) : StartSend(i)
    \/ \E i \in 1..Len(tasks), sent_ok \in BOOLEAN : DelayedSend(i, sent_ok)

SpecAdvert == Init /\ [][NextAdvert]_vars

\* C22: once send_advert has sent an advert its hash is in the duplicate cache, and, however
\* the send was interleaved with receptions, no retransmission of an own advert is ever
\* scheduled or sent when a neighbour echoes it back.
C22_OwnAdvertNotForwarded ==
    /\ \A k \in AdvertSends :
          radio[k].result = "ok" => PacketHash(radio[k].pkt) \in CacheKeys(seen_packets)
    /\ \A f \in forwarded_frames : ~IsOwnAdvert(f)
    /\ \A i \in 1..Len(tasks) : ~IsOwnAdvert(tasks[i].pkt)
    /\ \A k \in 1..Len(radio) : radio[k].kind = "retransmit" => ~IsOwnAdvert(radio[k].pkt)
    /\ (last.valid /\ IsOwnAdvert(last.rx)) =>
          /\ ~last.forward
          /\ ~last.record.transmitted
          /\ last.tasks_after = last.tasks_before

\* the echo of an advert whose send had returned was received in forward mode and dropped
\* as a duplicate
C22_EchoAfterSendDropped ==
    /\ last.valid /\ IsOwnAdvert(last.rx) /\ last.cfg.mode = "forward"
    /\ last.record.drop_reason = "Duplicate"
    /\ \E k \in AdvertSends : radio[k].pkt.payload = last.rx.payload /\ radio[k].result = "ok"

----------------------------------------------------------------------------
(* Trace forwarding *)

\* the last routed frame was a trace frame this node is the next hop of
TraceForUs ==
    /\ last.valid
    /\ last.rx.ptype = PAYLOAD_TYPE_TRACE /\ last.rx.route = ROUTE_TYPE_DIRECT
    /\ Len(last.rx.path) < MAX_PATH_SIZE /\ TraceValid(last.rx.payload)
    /\ should_forward_trace(last.rx, TracePath(last.rx.payload), last.seen_before)

\* C23: a direct trace frame with path_len < MAX_PATH_SIZE, this node next on its trace
\* route and its hash not in the cache, gets the SNR byte appended, its hash marked seen and
\* the mutated frame sent once; a later reception of the same frame is not forwarded again.
C23_TraceForwardedOnce ==
    TraceForUs =>
        /\ \E k \in 1..Len(last.entry.path) : last.entry.path[k] = SnrByte(last.rx.snr)
        /\ PacketHash(last.rx) \in CacheKeys(seen_packets)
        /\ Len(last.tasks_after) = Len(last.tasks_before) + 1
        /\ last.tasks_after[Len(last.tasks_after)].pkt.payload = last.rx.payload

----------------------------------------------------------------------------
(* Discovery requests and the responses injected through the router *)

DiscoveryPackets ==
    {Pkt(ROUTE_TYPE_FLOOD, PAYLOAD_TYPE_CONTROL, d, <<>>, 0, 0) : d \in DiscoveryRequests}
    \cup {Pkt(ROUTE_TYPE_FLOOD, PAYLOAD_TYPE_TXT, "A", <<OtherHash>>, 0, 0)}

RouteDiscoveryPacket(p) == rx_count < MaxDiscoveryRx /\ Route(p) /\ UNCHANGED router

\* RepeaterHandler.__call__(self, packet, metadata=None): the parameters a caller may name
call_parameters == {"packet", "metadata"}

\* PacketRouter.inject_packet, line 72: the arguments it calls the engine with
inject_arguments == {"packet", "metadata", "local_transmission"}

\* DiscoveryHelper._send_packet_async -> PacketRouter.inject_packet: the call of the engine
\* names a parameter __call__ does not have, so Python raises TypeError before the first line
\* of __call__ runs; inject_packet catches it (lines 79-81) and returns False, and
\* _send_packet_async logs the failure.
SendPacketAsync(i) ==
    /\ Suspended(router)
    /\ i \in 1..Len(discovery.pending)
    /\ ~(inject_arguments \subseteq call_parameters)
    /\ discovery' = [discovery EXCEPT
                        !.pending = Remove(@, i),
                        !.done = Append(@, [tag |-> discovery.pending[i].tag,
                                            pkt |-> discovery.pending[i].pkt,
                                            success |-> FALSE])]
    /\ UNCHANGED <<now, config, seen_packets, tx_history, rx_count, forwarded_count,
                   dropped_count, recent_packets, tasks, cfg_changes, forwarded_frames, last,
                   adverts, advert_obs, stored_keys, keys_cache, router, radio, calc, mqtt, storage, timer, cad, api>>

NextDiscovery ==
    \/ \E p \in DiscoveryPackets : RouteDiscoveryPacket(p)
    \/ \E i \in 1..Len(discovery.pending) : SendPacketAsync(i)
    \/ \E i \in 1..Len(tasks) : StartSend(i)
    \/ \E i \in 1..Len(tasks), sent_ok \in BOOLEAN : DelayedSend(i, sent_ok)

SpecDiscovery == Init /\ [][NextDiscovery]_vars

\* the discovery requests received so far whose filter byte has the repeater bit
MatchingRequests == {i \in 1..Len(discovery.requests) : filter_matches(discovery.requests[i])}

\* C24: a discovery request whose filter byte has the repeater bit (0x04) results in a
\* discovery response handed to the radio: one response task per such request, and when the
\* task has run the response is in the radio log; a request without the bit produces none.
C24_DiscoveryAnswered ==
    /\ Len(discovery.pending) + Len(discovery.done) = Cardinality(MatchingRequests)
    /\ \A i \in 1..Len(discovery.done) :
          \E k \in 1..Len(radio) : radio[k].pkt = discovery.done[i].pkt

\* only requests with the repeater bit create a response task
C24_NoResponseWithoutBit ==
    Len(discovery.pending) + Len(discovery.done) = Cardinality(MatchingRequests)

\* a request without the repeater bit and one with it have been routed, the task of the
\* latter has run
C24_Witness ==
    /\ \E i \in 1..Len(discovery.requests) : ~filter_matches(discovery.requests[i])
    /\ discovery.done # <<>>

----------------------------------------------------------------------------
(* Airtime accounting of every transmission *)

\* C25: every transmission the node makes (delayed retransmits, trace forwards, own adverts,
\* discovery responses) is recorded in the airtime ledger and passed the duty-cycle
\* admission check: each send the radio completed has one record_tx.
C25_EveryTransmissionAccounted ==
    \A k \in 1..Len(radio) : radio[k].result = "ok" => radio[k].record_tx = 1

\* the delayed retransmits are recorded
C25_RetransmitsAccounted ==
    \A k \in 1..Len(radio) :
        (radio[k].result = "ok" /\ radio[k].kind = "retransmit") => radio[k].record_tx = 1

----------------------------------------------------------------------------
(* The LetsMesh publisher: the thread calling connect() and disconnect(), the client's
   network loop thread running the callbacks, and the heartbeat thread *)

MqttUnchanged ==
    UNCHANGED <<config, seen_packets, tx_history, rx_count, forwarded_count,
                dropped_count, recent_packets, tasks, cfg_changes, forwarded_frames, last,
                adverts, advert_obs, stored_keys, keys_cache, router, radio, calc, discovery, storage, timer, cad, api>>

\* _generate_jwt: iat = now, exp = now + jwt_expiry_minutes
generate_jwt(t) == [issued |-> TRUE, iat |-> t, exp |-> t + jwt_expiry_minutes * 60]

\* publish_status -> publish -> client.publish
publish_status(m, state, by, t) ==
    [m EXCEPT !.published = Append(@, [status |-> state, t |-> t, by |-> by,
                                       loop |-> m.loop, client |-> m.client])]

\* connect(): token, username_pw_set, client.connect, loop_start, heartbeat thread started
MqttConnect ==
    /\ mqtt.main = "new"
    /\ mqtt' = [mqtt EXCEPT !.main = "run", !.token = generate_jwt(now),
                            !.client = "connecting", !.loop = TRUE,
                            !.hb = IF status_interval > 0 THEN "test" ELSE "none"]
    /\ UNCHANGED now /\ MqttUnchanged

\* _on_connect with rc == 0, run by the network loop thread
OnConnect ==
    /\ mqtt.loop /\ mqtt.client = "connecting"
    /\ mqtt.connects < MaxConnects
    /\ mqtt' = publish_status([mqtt EXCEPT !.running = TRUE, !.client = "connected",
                                           !.connects = @ + 1], "online", "on_connect", now)
    /\ UNCHANGED now /\ MqttUnchanged

\* _on_disconnect, run by the network loop thread when the connection is lost; the loop
\* thread then reconnects with the credentials set by connect()
OnDisconnect ==
    /\ mqtt.loop /\ mqtt.client = "connected"
    /\ mqtt' = [mqtt EXCEPT !.running = FALSE, !.client = "connecting"]
    /\ UNCHANGED now /\ MqttUnchanged

\* _status_heartbeat_loop, line 220: while self._running
HeartbeatTest ==
    /\ mqtt.hb = "test"
    /\ mqtt' = [mqtt EXCEPT !.hb = IF mqtt.running THEN "publish" ELSE "ended"]
    /\ UNCHANGED now /\ MqttUnchanged

\* _status_heartbeat_loop, lines 222-227: publish_status, then time.sleep(status_interval)
HeartbeatPublish ==
    /\ mqtt.hb = "publish"
    /\ mqtt' = publish_status([mqtt EXCEPT !.hb = "sleep", !.wake = now + status_interval],
                              "online", "heartbeat", now)
    /\ UNCHANGED now /\ MqttUnchanged

\* _status_heartbeat_loop, line 227: time.sleep returns
HeartbeatWake ==
    /\ mqtt.hb = "sleep" /\ now >= mqtt.wake
    /\ mqtt' = [mqtt EXCEPT !.hb = "test"]
    /\ UNCHANGED now /\ MqttUnchanged

\* disconnect(), line 203: self._running = False
DisconnectStop ==
    /\ mqtt.main = "run"
    /\ mqtt' = [mqtt EXCEPT !.main = "stopping", !.running = FALSE]
    /\ UNCHANGED now /\ MqttUnchanged

\* disconnect(), lines 205-211: publish_status(state="offline"), time.sleep(0.5)
DisconnectOffline ==
    /\ mqtt.main = "stopping"
    /\ mqtt' = publish_status([mqtt EXCEPT !.main = "offline"], "offline", "disconnect", now)
    /\ UNCHANGED now /\ MqttUnchanged

\* disconnect(), lines 213-214: client.loop_stop(), client.disconnect()
DisconnectClose ==
    /\ mqtt.main = "offline"
    /\ mqtt' = [mqtt EXCEPT !.main = "closed", !.loop = FALSE, !.client = "closed"]
    /\ UNCHANGED now /\ MqttUnchanged

\* time passes; a runnable thread takes its step before the next status_interval has passed
MqttTick ==
    /\ mqtt.main \in {"run", "closed"}
    /\ mqtt.hb \notin {"test", "publish"}
    /\ mqtt.hb = "sleep" => now + status_interval <= mqtt.wake
    /\ now + status_interval <= MaxMqttTime
    /\ now' = now + status_interval
    /\ UNCHANGED mqtt /\ MqttUnchanged

NextMqtt ==
    \/ MqttConnect
    \/ OnConnect
    \/ OnDisconnect
    \/ HeartbeatTest
    \/ HeartbeatPublish
    \/ HeartbeatWake
    \/ DisconnectStop
    \/ DisconnectOffline
    \/ DisconnectClose
    \/ MqttTick

SpecMqtt == Init /\ [][NextMqtt]_vars

\* the heartbeat thread exists and has not left its loop
HeartbeatAlive == mqtt.hb \in {"test", "publish", "sleep"}

\* the publisher is connected and disconnect() has not been called
MqttConnected == mqtt.main = "run" /\ mqtt.client = "connected"

StatusAt(state) == {i \in 1..Len(mqtt.published) : mqtt.published[i].status = state}

\* C26: whenever the publisher is connected its heartbeat loop is running and a status has
\* been published within the last status_interval seconds, from the first connection on,
\* whichever of on_connect and the heartbeat thread runs first, and after a reconnect.
C26_HeartbeatWhileConnected ==
    MqttConnected =>
        /\ HeartbeatAlive
        /\ \E i \in StatusAt("online") : now - mqtt.published[i].t <= status_interval

\* C27: while the publisher runs, the token is regenerated when the time since its issue
\* reaches 80% of its lifetime (exp - iat): the token in use is never older than that.
C27_TokenRefreshed ==
    (mqtt.main = "run" /\ mqtt.token.issued) =>
        (now - mqtt.token.iat) * 5 <= (mqtt.token.exp - mqtt.token.iat) * 4

\* the token's lifetime is jwt_expiry_minutes (10 minutes)
C27_TokenLifetime ==
    mqtt.token.issued => mqtt.token.exp - mqtt.token.iat = jwt_expiry_minutes * 60

\* C28: after disconnect() exactly one status "offline" has been published, while the
\* network loop was running and the client open, and no "online" heartbeat follows it.
C28_OfflineIsLast ==
    mqtt.main = "closed" =>
        /\ Cardinality(StatusAt("offline")) = 1
        /\ \A i \in StatusAt("offline") :
              /\ mqtt.published[i].loop /\ mqtt.published[i].client # "closed"
              /\ \A j \in StatusAt("online") : mqtt.published[j].by = "heartbeat" => j < i

\* disconnect() publishes exactly one "offline", before loop_stop and client.disconnect
C28_OneOfflineBeforeStop ==
    mqtt.main = "closed" =>
        /\ Cardinality(StatusAt("offline")) = 1
        /\ \A i \in StatusAt("offline") :
              mqtt.published[i].loop /\ mqtt.published[i].client # "closed"

----------------------------------------------------------------------------
(* Packet records *)

\* the records held by the ring: its entries and the entries of their duplicates lists
RecordCount(ring) ==
    Cardinality({ij \in (1..Len(ring)) \X (0..max_recent_packets) :
                    ij[2] <= Len(ring[ij[1]].duplicates)})

\* a record without its duplicates list
Fields(rec) == [rec EXCEPT !.duplicates = <<>>]

\* the routing of the last frame created one record, counted the frame once and left the
\* fields of the records that existed before as they were
OneRecordPerFrame ==
    /\ rx_count = last.rx_on_rx + 1
    /\ RecordCount(recent_packets) = RecordCount(last.ring_on_rx) + 1
    /\ Len(recent_packets) >= Len(last.ring_on_rx)
    /\ \A i \in 1..Len(last.ring_on_rx) :
          i <= Len(recent_packets) => Fields(recent_packets[i]) = Fields(last.ring_on_rx[i])

\* C29: each received frame produces exactly one packet record (one ring entry or one
\* duplicates-list entry, one rx_count increment), and the fields of a record are not
\* modified after its creation.
C29_OneRecordPerFrame == last.valid => OneRecordPerFrame

\* frames other than trace frames get one record each
C29_OneRecordUnlessTrace ==
    (last.valid /\ last.rx.ptype # PAYLOAD_TYPE_TRACE) => OneRecordPerFrame

----------------------------------------------------------------------------
(* StorageCollector.record_packet and cleanup_old_data *)

SecondsPerDay == 24 * 3600

StoredTypes == {PAYLOAD_TYPE_TXT, PAYLOAD_TYPE_ADVERT}

StorageUnchanged ==
    UNCHANGED <<config, seen_packets, tx_history, rx_count, forwarded_count,
                dropped_count, recent_packets, tasks, cfg_changes, forwarded_frames, last,
                adverts, advert_obs, stored_keys, keys_cache, router, radio, calc, discovery,
                mqtt, timer, cad, api>>

\* SQLiteHandler.store_packet: INSERT INTO packets; a failure is logged and no row is added
store_packet(rows, rec, store_ok) == IF store_ok THEN Append(rows, rec) ELSE rows

\* SQLiteHandler.get_cumulative_counts: SELECT COUNT(*) over the rows of the packets table;
\* when the table cannot be read, zeros
get_cumulative_counts(rows, read_ok) ==
    IF read_ok
    THEN [rx_total |-> Len(rows),
          tx_total |-> Cardinality({i \in 1..Len(rows) : rows[i].transmitted}),
          drop_total |-> Cardinality({i \in 1..Len(rows) : ~rows[i].transmitted}),
          type_counts |-> [ty \in StoredTypes |->
                              Cardinality({i \in 1..Len(rows) : rows[i].type = ty})],
          read_ok |-> TRUE]
    ELSE [rx_total |-> 0, tx_total |-> 0, drop_total |-> 0,
          type_counts |-> [ty \in StoredTypes |-> 0], read_ok |-> FALSE]

\* StorageCollector.record_packet, lines 69-72: store_packet, get_cumulative_counts,
\* rrd_handler.update_packet_metrics(packet_record, cumulative_counts)
StorageRecordPacket(ty, transmitted, store_ok, read_ok) ==
    /\ storage.calls < MaxStored
    /\ \E rows \in {store_packet(storage.rows,
                                 [timestamp |-> now, type |-> ty, transmitted |-> transmitted],
                                 store_ok)} :
          storage' = [storage EXCEPT
                         !.rows = rows,
                         !.calls = @ + 1,
                         !.handed = Append(@, get_cumulative_counts(rows, read_ok))]
    /\ UNCHANGED now /\ StorageUnchanged

\* SQLiteHandler.cleanup_old_data: DELETE FROM packets WHERE timestamp < now - days * 24 * 3600
cleanup_old_data(rows, days, t) ==
    SelectSeq(rows, LAMBDA row : ~(row.timestamp < t - days * SecondsPerDay))

\* StorageCollector.cleanup_old_data(days)
CleanupOldData(days) ==
    /\ cleanup_old_data(storage.rows, days, now) # storage.rows
    /\ storage' = [storage EXCEPT
                      !.rows = cleanup_old_data(storage.rows, days, now),
                      !.deleted = @ + Len(storage.rows)
                                    - Len(cleanup_old_data(storage.rows, days, now))]
    /\ UNCHANGED now /\ StorageUnchanged

\* time passes, StorageTickDays days at a time
StorageTick ==
    /\ now + StorageTickDays * SecondsPerDay <= MaxStorageDays * SecondsPerDay
    /\ now' = now + StorageTickDays * SecondsPerDay
    /\ UNCHANGED storage /\ StorageUnchanged

NextStorage ==
    \/ \E ty \in StoredTypes, transmitted \in BOOLEAN, store_ok \in BOOLEAN, read_ok \in BOOLEAN :
          StorageRecordPacket(ty, transmitted, store_ok, read_ok)
    \/ CleanupOldData(cleanup_days)
    \/ StorageTick

SpecStorage == Init /\ [][NextStorage]_vars

\* the counts of call i do not exceed those of call j
CountsLeq(a, b) ==
    /\ a.rx_total <= b.rx_total
    /\ a.tx_total <= b.tx_total
    /\ a.drop_total <= b.drop_total
    /\ \A ty \in StoredTypes : a.type_counts[ty] <= b.type_counts[ty]

\* C30: the rx_total, tx_total, drop_total and per-type values handed to the time-series
\* store by successive record_packet calls never decrease, under any sequence of
\* record_packet calls, store failures and cleanup_old_data calls.
C30_CountersMonotonic ==
    \A i \in 1..Len(storage.handed), j \in 1..Len(storage.handed) :
        i < j => CountsLeq(storage.handed[i], storage.handed[j])

\* with store failures only (no row deleted, every count read) the values never decrease
C30_MonotonicWithoutCleanup ==
    (storage.deleted = 0 /\ \A i \in 1..Len(storage.handed) : storage.handed[i].read_ok) =>
        \A i \in 1..Len(storage.handed), j \in 1..Len(storage.handed) :
            i < j => CountsLeq(storage.handed[i], storage.handed[j])

\* a store failure happened between two calls whose counts were read
C30_StoreFailureSeen ==
    /\ storage.deleted = 0
    /\ Len(storage.handed) >= 2 /\ \A i \in 1..Len(storage.handed) : storage.handed[i].read_ok
    /\ Len(storage.rows) < storage.calls

----------------------------------------------------------------------------
(* The ring of recent packets when it is full or one record short of full *)

InitRing == \E n \in {max_recent_packets - 1, max_recent_packets} : InitFilled(n)

\* a new flood frame, a trace frame this node is the next hop of, and a frame whose record
\* is in the ring
RingPackets ==
    { Pkt(ROUTE_TYPE_FLOOD, PAYLOAD_TYPE_TXT, "A", <<OtherHash>>, 0, 0),
      Pkt(ROUTE_TYPE_DIRECT, PAYLOAD_TYPE_TRACE, "A", <<>>, 0, 3),
      FillPacket(max_recent_packets - 1) }

RouteRingPacket(p) ==
    rx_count < max_recent_packets + MaxRingRx /\ Route(p) /\ UNCHANGED router

NextRing ==
    \/ \E p \in RingPackets : RouteRingPacket(p)
    \/ \E i \in 1..Len(tasks) : StartSend(i)
    \/ \E i \in 1..Len(tasks), sent_ok \in BOOLEAN : DelayedSend(i, sent_ok)

SpecRing == InitRing /\ [][NextRing]_vars

\* the engine attached the record of the last frame to the duplicates list of an older one
LastAttached ==
    last.record.is_duplicate /\ LastIndexOf(last.ring_before, last.record.packet_hash) # 0

\* the records the routing of the last frame appended to the ring
LastAppended == (rx_count - last.rx_on_rx) - (IF LastAttached THEN 1 ELSE 0)

\* the records the routing of the last frame removed from the ring
LastRemoved == Len(last.ring_on_rx) + LastAppended - Len(recent_packets)

\* C31: after every __call__ and log_trace_record the ring holds at most
\* max_recent_packets (50) records, and a record added to a full ring removes the oldest
\* one: the records kept are the newest of the old ones, in order, followed by the new.
C31_RingBounded ==
    /\ Len(recent_packets) <= max_recent_packets
    /\ last.valid =>
          /\ LastRemoved >= 0
          /\ Len(recent_packets) =
                IF Len(last.ring_on_rx) + LastAppended > max_recent_packets
                THEN max_recent_packets ELSE Len(last.ring_on_rx) + LastAppended
          /\ \A i \in 1..(Len(last.ring_on_rx) - LastRemoved) :
                recent_packets[i].packet_hash = last.ring_on_rx[i + LastRemoved].packet_hash
          /\ ~LastAttached => Fields(recent_packets[Len(recent_packets)]) = last.record

\* C31 witness: a record was appended to a ring that held max_recent_packets records
C31_Witness ==
    /\ last.valid /\ Len(last.ring_on_rx) = max_recent_packets
    /\ LastAppended >= 1 /\ LastRemoved >= 1

----------------------------------------------------------------------------
(* The engine recording a packet into a store that fails *)

MaxStoreRx == 2

\* frames whose record the engine makes (trace frames get a second record from the helper)
StorePackets ==
    { Pkt(ROUTE_TYPE_FLOOD, PAYLOAD_TYPE_TXT, pl, <<OtherHash>>, 0, 0) : pl \in {"A", "B"} }
        \cup { Pkt(ROUTE_TYPE_DIRECT, PAYLOAD_TYPE_TXT, "A", <<OtherHash>>, 0, 0),
               Pkt(ROUTE_TYPE_DIRECT, PAYLOAD_TYPE_TXT, "A", <<local_hash, OtherHash>>, 0, 0) }

\* _route_packet with the engine's call of StorageCollector.record_packet (engine.py lines
\* 260-265; storage_collector.py lines 66-73): store_packet logs its own failure and adds
\* no row, a later step of record_packet raises before the counts are handed on
RouteStorePacket(p, store_ok, read_ok, raised) ==
    /\ rx_count < MaxStoreRx
    /\ RouteEngine(p, raised)
    /\ \E rows \in {store_packet(storage.rows,
                                 [timestamp |-> now, type |-> last'.record.type,
                                  transmitted |-> last'.record.transmitted],
                                 store_ok)} :
          storage' = [storage EXCEPT
                         !.rows = rows,
                         !.calls = @ + 1,
                         !.handed = IF raised THEN @
                                    ELSE Append(@, get_cumulative_counts(rows, read_ok)),
                         !.raised = raised]
    /\ UNCHANGED router

NextStore ==
    \/ \E p \in StorePackets, store_ok \in BOOLEAN, read_ok \in BOOLEAN, raised \in BOOLEAN :
          RouteStorePacket(p, store_ok, read_ok, raised)
    \/ \E i \in 1..Len(tasks) : StartSend(i)
    \/ \E i \in 1..Len(tasks), sent_ok \in BOOLEAN : DelayedSend(i, sent_ok)
    \/ Tick
    \/ \E m \in {"forward", "monitor"} : SetMode(m)

SpecStore == Init /\ [][NextStore]_vars

\* C32: when the store raises while the engine records a packet, the decision already
\* taken stands (the counters keep the values of a forward or a drop, a scheduled retransmit
\* stays scheduled until it is sent) and the record is still added to the ring.
C32_StoreFailureTolerated ==
    (last.valid /\ storage.raised) =>
        /\ recent_packets = AddRecord(last.ring_before, last.record)
        /\ forwarded_count = last.fwd_before + (IF last.record.transmitted THEN 1 ELSE 0)
        /\ dropped_count = last.drp_before + (IF last.record.transmitted THEN 0 ELSE 1)
        /\ \A k \in 1..Len(last.tasks_after) :
              \/ \E i \in 1..Len(tasks) : tasks[i].id = last.tasks_after[k].id
              \/ \E j \in 1..Len(radio) : radio[j].id = last.tasks_after[k].id

\* C32 witness: the store raised for a frame the engine forwarded, whose retransmit is
\* scheduled
C32_Witness ==
    /\ last.valid /\ storage.raised /\ last.record.transmitted
    /\ Len(last.tasks_after) > Len(last.tasks_before)
    /\ \E i \in 1..Len(tasks) : tasks[i].pc = "sleep"

----------------------------------------------------------------------------
(* Stopping the router worker and cancelling the engine's background timer *)

MaxStopEnqueue == 2
MaxRestarts == 1

StopPackets ==
    { Pkt(ROUTE_TYPE_FLOOD, PAYLOAD_TYPE_TXT, "A", <<OtherHash>>, 0, 0),
      Pkt(ROUTE_TYPE_FLOOD, PAYLOAD_TYPE_ADVERT, "A", <<OtherHash>>, 0, 0) }

\* PacketRouter.enqueue, before and after stop()
EnqueueStop(p) == router.enqueued < MaxStopEnqueue /\ Enqueue(p)

RouterUnchanged ==
    UNCHANGED <<now, config, seen_packets, tx_history, rx_count, forwarded_count,
                dropped_count, recent_packets, tasks, cfg_changes, forwarded_frames, last,
                adverts, advert_obs, stored_keys, keys_cache, radio, calc, discovery, mqtt,
                storage, timer, cad, api>>

\* PacketRouter.stop, lines 39-41: running = False and router_task.cancel(); stop() is a
\* coroutine of the same event loop, so the worker is suspended when it runs
RouterStop ==
    /\ router.pc \in {"get", "helpers"}
    /\ router.stop = "idle"
    /\ router' = [router EXCEPT !.running = FALSE, !.cancel = TRUE, !.stop = "await"]
    /\ RouterUnchanged

\* CancelledError raised at the worker's await: neither "except asyncio.TimeoutError" nor
\* "except Exception" of _process_queue (lines 90-93) catches it, the task ends
WorkerCancelled ==
    /\ router.cancel
    /\ router.pc \in {"get", "helpers"}
    /\ router' = [router EXCEPT !.pc = "done", !.cancel = FALSE, !.item = <<>>]
    /\ RouterUnchanged

\* asyncio.wait_for whose queue.get() had completed when the cancel arrived returns the
\* item and the cancellation is lost: the worker routes this frame
GetDespiteCancel ==
    /\ router.cancel
    /\ router.pc = "get"
    /\ router.queue # <<>>
    /\ LET i == queue_get(router.queue)
       IN  router' = [router EXCEPT !.queue = Remove(@, i),
                                    !.item = <<router.queue[i]>>,
                                    !.pc = "helpers",
                                    !.cancel = FALSE,
                                    !.log = Append(@, [ev |-> "begin", n |-> router.queue[i].n,
                                                       waiting |-> Len(router.queue) - 1])]
    /\ RouterUnchanged

\* _process_queue, line 86: "while self.running" is false, the coroutine returns
LoopExit ==
    /\ router.pc = "get"
    /\ ~router.running /\ ~router.cancel
    /\ router' = [router EXCEPT !.pc = "done"]
    /\ RouterUnchanged

\* stop() going on without waiting for the worker task
stop_wait_over_at_once(r) == TRUE

\* PacketRouter.stop, lines 42-45: "await self.router_task" returns or raises
\* CancelledError when the worker task has ended
stop_wait_over(r) == r.pc = "done"

StopReturns ==
    /\ router.stop = "await"
    /\ stop_wait_over(router)
    /\ router.pc \in {"get", "helpers", "done"}
    /\ router' = [router EXCEPT !.stop = "returned", !.stop_log = Len(router.log),
                                !.stop_rx = rx_count]
    /\ RouterUnchanged

TimerUnchanged ==
    UNCHANGED <<now, config, seen_packets, tx_history, rx_count, forwarded_count,
                dropped_count, recent_packets, tasks, cfg_changes, forwarded_frames, last,
                adverts, advert_obs, stored_keys, keys_cache, router, radio, calc, discovery,
                mqtt, storage, cad, api>>

\* _background_timer_loop, lines 795-796: sleep(5) has returned and an advert is due,
\* the loop awaits _send_periodic_advert_async
TimerAdvert ==
    /\ timer.pc = "sleep" /\ ~timer.cancel
    /\ router.pc \in {"get", "helpers", "done"}
    /\ timer' = [timer EXCEPT !.pc = "advert"]
    /\ TimerUnchanged

\* _send_periodic_advert_async has returned, the loop sleeps again (line 799)
TimerAdvertDone ==
    /\ timer.pc = "advert" /\ ~timer.cancel
    /\ router.pc \in {"get", "helpers", "done"}
    /\ timer' = [timer EXCEPT !.pc = "sleep"]
    /\ TimerUnchanged

\* lines 804-807: an exception other than CancelledError left the loop, the handler sleeps
\* 30 s before it restarts the timer
TimerError ==
    /\ timer.pc = "sleep" /\ ~timer.cancel
    /\ timer.restarts < MaxRestarts
    /\ router.pc \in {"get", "helpers", "done"}
    /\ timer' = [timer EXCEPT !.pc = "restart_sleep"]
    /\ TimerUnchanged

\* line 808: the handler creates the next timer task, _background_task refers to it, and
\* the old task ends
TimerRestart ==
    /\ timer.pc = "restart_sleep" /\ ~timer.cancel
    /\ router.pc \in {"get", "helpers", "done"}
    /\ timer' = [timer EXCEPT !.pc = "sleep", !.restarts = @ + 1]
    /\ TimerUnchanged

\* RepeaterHandler.cleanup, lines 841-843: _background_task.cancel() unless it is done
TimerCancel ==
    /\ timer.pc # "done" /\ ~timer.cancel
    /\ router.pc \in {"get", "helpers", "done"}
    /\ timer' = [timer EXCEPT !.cancel = TRUE, !.cancels = @ + 1,
                              !.restarts_on_cancel = timer.restarts,
                              !.cancel_at = timer.pc]
    /\ TimerUnchanged

\* where CancelledError raised at the timer's await takes it: from sleep(5) through
\* "except asyncio.CancelledError: raise" (lines 801-803), from the advert send through
\* "except Exception" of _send_periodic_advert_async, which does not catch it (line 837), and
\* from sleep(30) out of the handler (line 807); the task ends each time
cancel_outcome(pc) == "done"

TimerCancelled ==
    /\ timer.cancel
    /\ router.pc \in {"get", "helpers", "done"}
    /\ timer' = [timer EXCEPT !.pc = cancel_outcome(timer.pc), !.cancel = FALSE]
    /\ TimerUnchanged

NextStop ==
    \/ \E p \in StopPackets : EnqueueStop(p)
    \/ Dequeue
    \/ CallEngine
    \/ Admit
    \/ CreateTask
    \/ RecordPacket
    \/ \E i \in 1..Len(tasks) : StartSend(i)
    \/ \E i \in 1..Len(tasks), sent_ok \in BOOLEAN : DelayedSend(i, sent_ok)
    \/ RouterStop
    \/ WorkerCancelled
    \/ GetDespiteCancel
    \/ LoopExit
    \/ StopReturns
    \/ TimerAdvert
    \/ TimerAdvertDone
    \/ TimerError
    \/ TimerRestart
    \/ TimerCancel
    \/ TimerCancelled

SpecStop == Init /\ [][NextStop]_vars

\* C33: once PacketRouter.stop() has returned the worker task has ended and no frame is
\* routed afterwards (the worker's log and rx_count stay as they were, whatever is
\* enqueued); once a cancel of the engine's timer task has been delivered the task has
\* ended and the restart path was not taken.
C33_StoppedForGood ==
    /\ router.stop = "returned" =>
          /\ router.pc = "done"
          /\ Len(router.log) = router.stop_log
          /\ rx_count = router.stop_rx
    /\ (timer.cancels > 0 /\ ~timer.cancel) =>
          /\ timer.pc = "done"
          /\ timer.restarts = timer.restarts_on_cancel

\* C33 witness: stop() returned after the worker routed a frame despite the cancel, a
\* frame enqueued later is still in the queue, and the timer was cancelled in the handler's
\* 30-second sleep
C33_Witness ==
    /\ router.stop = "returned" /\ router.queue # <<>> /\ router.stop_log > 0
    /\ router.enqueued = MaxStopEnqueue
    /\ timer.cancels > 0 /\ ~timer.cancel /\ timer.cancel_at = "restart_sleep"

----------------------------------------------------------------------------
\* C34: whenever the engine schedules no retransmit for a frame (any drop reason, the
\* duty-cycle denial included), the path of the packet and the duplicate cache are as they
\* were before the engine ran.
C34_DropLeavesPacketAndCache ==
    (last.valid /\ ~last.record.transmitted) =>
        /\ last.pkt.path = last.entry.path
        /\ seen_packets = last.seen_before

\* the same for the drops decided before the airtime gate: process_packet returned None
C34_EarlyDropLeavesPacketAndCache ==
    (last.valid /\ ~last.forward) =>
        /\ last.pkt.path = last.entry.path
        /\ seen_packets = last.seen_before

\* a frame process_packet accepted and the airtime gate denied: the engine has appended its
\* hash to the path and put the packet hash into the cache
C34_DeniedAfterMarking ==
    /\ last.valid /\ last.forward /\ ~last.can_tx /\ ~last.record.transmitted
    /\ last.entry.route = ROUTE_TYPE_FLOOD
    /\ last.pkt.path = Append(last.entry.path, local_hash)
    /\ ~is_duplicate(last.seen_before, last.entry)
    /\ is_duplicate(seen_packets, last.entry)

----------------------------------------------------------------------------
\* C35: a record has is_duplicate true only if the hash of the packet was in the duplicate
\* cache before the engine processed it; the first reception of a flood packet that the
\* duty-cycle gate denies is not recorded as a duplicate.
C35_DuplicateOnlyIfSeenBefore ==
    (last.valid /\ last.record.is_duplicate) => is_duplicate(last.seen_before, last.entry)

\* the same for the frames the engine forwarded or dropped before the airtime gate
C35_DuplicateUnlessDenied ==
    (last.valid /\ last.record.is_duplicate /\ ~(last.forward /\ ~last.can_tx)) =>
        is_duplicate(last.seen_before, last.entry)

\* the first reception of a flood frame, denied by the airtime gate, recorded as a duplicate
C35_FirstReceptionRecordedDuplicate ==
    /\ last.valid /\ last.forward /\ ~last.can_tx
    /\ last.entry.route = ROUTE_TYPE_FLOOD
    /\ ~is_duplicate(last.seen_before, last.entry)
    /\ last.record.is_duplicate
    /\ last.record.drop_reason = "Duty cycle limit"

----------------------------------------------------------------------------
\* C36: after any sequence of engine calls and trace-record logs the counters balance:
\* rx_count = forwarded_count + dropped_count.
C36_CountersBalance == rx_count = forwarded_count + dropped_count

\* C36 witness: a trace frame was counted twice (by log_trace_record and by __call__) after
\* a frame that was forwarded
C36_Witness ==
    /\ last.valid /\ last.rx.ptype = PAYLOAD_TYPE_TRACE
    /\ rx_count = last.rx_on_rx + 2
    /\ forwarded_count > 0 /\ dropped_count > 0

----------------------------------------------------------------------------
(* Monitor mode: the handlers the daemon registers with the dispatcher *)

MaxMonitorRx == 2

\* RepeaterDaemon._trace_callback (main.py lines 137-281) -> [state, sent]: the record
\* logged through log_trace_record, and for a frame this node is the next hop of the
\* record edited, the SNR byte appended, mark_seen and dispatcher.send_packet
trace_callback(p, e, t) ==
    IF p.route # ROUTE_TYPE_DIRECT \/ Len(p.path) >= MAX_PATH_SIZE \/ ~TraceValid(p.payload)
    THEN [state |-> e, sent |-> <<>>]
    ELSE LET e1 == log_trace_record(e, Record(p, FALSE, FALSE, "trace_received", TRUE))
             idx == LastIndexOf(e1.ring, PacketHash(p))
             fwd == [p EXCEPT !.path = Append(p.path, SnrByte(p.snr))]
         IN  IF should_forward_trace(p, TracePath(p.payload), e.seen)
             THEN [state |-> [e1 EXCEPT
                                 !.ring = IF idx = 0 THEN @
                                          ELSE [@ EXCEPT ![idx].transmitted = TRUE,
                                                         ![idx].drop_reason = "trace_forwarded"],
                                 !.seen = mark_seen(e1.seen, fwd, t)],
                   sent |-> <<fwd>>]
             ELSE [state |-> e1, sent |-> <<>>]

\* the dispatcher hands a received trace frame to _trace_callback; a send that raises is
\* logged by the handler's except branch
TraceCallback(p, sent_ok) ==
    /\ Suspended(router)
    /\ rx_count < MaxMonitorRx
    /\ p.ptype = PAYLOAD_TYPE_TRACE
    /\ \E o \in {trace_callback(p, EngineState, now)} :
          /\ o.state # EngineState
          /\ seen_packets' = o.state.seen
          /\ recent_packets' = o.state.ring
          /\ rx_count' = o.state.rx
          /\ forwarded_count' = o.state.fwd
          /\ dropped_count' = o.state.drp
          /\ radio' = IF o.sent = <<>> THEN radio
                      ELSE Append(radio, [id |-> 0, kind |-> "trace", pkt |-> o.sent[1],
                                          wait_for_ack |-> FALSE,
                                          result |-> IF sent_ok THEN "ok" ELSE "raised",
                                          record_tx |-> 0])
    /\ UNCHANGED <<now, config, tx_history, tasks, cfg_changes, forwarded_frames, last,
                   adverts, advert_obs, stored_keys, keys_cache, router, calc, discovery,
                   mqtt, storage, timer, cad, api>>

\* the frames the engine and the discovery helper get
MonitorPackets ==
    { Pkt(ROUTE_TYPE_FLOOD, PAYLOAD_TYPE_TXT, "A", <<OtherHash>>, 0, 0),
      Pkt(ROUTE_TYPE_DIRECT, PAYLOAD_TYPE_TXT, "A", <<local_hash, OtherHash>>, 0, 0),
      Pkt(ROUTE_TYPE_FLOOD, PAYLOAD_TYPE_ADVERT, "A", <<OtherHash>>, 0, 0) }
        \cup DiscoveryPackets

RouteMonitorPacket(p) == rx_count < MaxMonitorRx /\ Route(p) /\ UNCHANGED router

NextMonitor ==
    \/ \E p \in MonitorPackets : RouteMonitorPacket(p)
    \/ \E p \in TracePackets, sent_ok \in BOOLEAN : TraceCallback(p, sent_ok)
    \/ \E i \in 1..Len(discovery.pending) : SendPacketAsync(i)
    \/ \E i \in 1..Len(tasks) : StartSend(i)
    \/ \E i \in 1..Len(tasks), sent_ok \in BOOLEAN : DelayedSend(i, sent_ok)
    \/ \E m \in {"forward", "monitor"} : SetMode(m)

SpecMonitor == Init /\ [][NextMonitor]_vars

\* C37: in monitor mode no received frame of any payload type (trace frames handled by the
\* trace callback and discovery requests included) makes the node transmit: while the mode
\* is monitor no delayed send is scheduled and nothing but a retransmit scheduled earlier
\* reaches the radio.
C37_MonitorNeverTransmits ==
    [][config.mode = "monitor" =>
          /\ Len(tasks') <= Len(tasks)
          /\ \A k \in (Len(radio) + 1)..Len(radio') : radio'[k].kind = "retransmit"]_vars

\* the same for the frames that go through the engine and the discovery helper
C37_EngineSilentInMonitor ==
    [][(config.mode = "monitor" /\ rx_count' = rx_count + 1 /\ last' # last) =>
          /\ tasks' = tasks /\ radio' = radio
          /\ ~last'.record.transmitted]_vars

\* a trace frame received in monitor mode has been sent on by the trace callback
C37_TraceSentInMonitor ==
    /\ config.mode = "monitor"
    /\ \E k \in 1..Len(radio) : radio[k].kind = "trace" /\ radio[k].result = "ok"
    /\ tasks = <<>> /\ forwarded_count = 0

----------------------------------------------------------------------------
(* CAD calibration: the HTTP handlers start_calibration and stop_calibration and the
   worker threads, every step of a thread interleaved with the others *)

MaxCalibrations == 2
MaxCadTests == 2

CadUnchanged ==
    UNCHANGED <<now, config, seen_packets, tx_history, rx_count, forwarded_count,
                dropped_count, recent_packets, tasks, cfg_changes, forwarded_frames, last,
                adverts, advert_obs, stored_keys, keys_cache, router, radio, calc, discovery,
                mqtt, storage, timer, api>>

\* the threads that have not left calibration_worker
ActiveWorkers == {w \in 1..Len(cad.workers) : cad.workers[w].pc # "done"}

\* start_calibration, lines 260-261: "if self.running: return False"
may_start(c) == ~c.running

\* start_calibration, lines 263-275: running = True, results cleared, a new thread started
StartCalibration ==
    /\ may_start(cad)
    /\ Len(cad.workers) < MaxCalibrations
    /\ cad' = [cad EXCEPT !.running = TRUE, !.results = {},
                          !.workers = Append(@, [pc |-> "loop", tests |-> 0])]
    /\ CadUnchanged

\* stop_calibration, lines 279-282: running = False; join(timeout=2) returns when the
\* thread has ended or after 2 s, whichever comes first, and changes nothing
StopCalibration ==
    /\ cad.running
    /\ cad' = [cad EXCEPT !.running = FALSE]
    /\ CadUnchanged

\* calibration_worker, lines 182-185: the loop head, "if not self.running: break"
WorkerLoop(w) ==
    /\ w \in 1..Len(cad.workers)
    /\ cad.workers[w].pc = "loop"
    /\ cad' = IF cad.running /\ cad.workers[w].tests < MaxCadTests
              THEN [cad EXCEPT !.workers[w].pc = "test", !.workers[w].tests = @ + 1]
              ELSE [cad EXCEPT !.workers[w].pc = "finish"]
    /\ CadUnchanged

\* lines 198-216: future.result(timeout=30) returns and the result is stored, or raises
WorkerTestDone(w, ok) ==
    /\ w \in 1..Len(cad.workers)
    /\ cad.workers[w].pc = "test"
    /\ cad' = [cad EXCEPT !.workers[w].pc = "loop",
                          !.results = IF ok THEN @ \cup {[worker |-> w,
                                                          test |-> cad.workers[w].tests]}
                                      ELSE @]
    /\ CadUnchanged

\* lines 222-247: the completed or stopped message
WorkerFinish(w) ==
    /\ w \in 1..Len(cad.workers)
    /\ cad.workers[w].pc = "finish"
    /\ cad' = [cad EXCEPT !.workers[w].pc = "finally"]
    /\ CadUnchanged

\* lines 252-253: finally: self.running = False
WorkerFinally(w) ==
    /\ w \in 1..Len(cad.workers)
    /\ cad.workers[w].pc = "finally"
    /\ cad' = [cad EXCEPT !.workers[w].pc = "done",
                          !.running = FALSE,
                          !.cleared_by = IF cad.running /\ w < Len(cad.workers) THEN w ELSE @]
    /\ CadUnchanged

NextCad ==
    \/ StartCalibration
    \/ StopCalibration
    \/ \E w \in 1..MaxCalibrations : WorkerLoop(w)
    \/ \E w \in 1..MaxCalibrations, ok \in BOOLEAN : WorkerTestDone(w, ok)
    \/ \E w \in 1..MaxCalibrations : WorkerFinish(w)
    \/ \E w \in 1..MaxCalibrations : WorkerFinally(w)

SpecCad == Init /\ [][NextCad]_vars

\* C38: at most one calibration worker thread is active at any time, and a worker of an
\* earlier calibration never writes results into, or clears the running flag of, a later
\* calibration.
C38_OneCalibrationWorker ==
    /\ Cardinality(ActiveWorkers) <= 1
    /\ \A r \in cad.results : r.worker = Len(cad.workers)
    /\ cad.cleared_by = 0

\* two worker threads are alive, the earlier one has stored a result among those of the
\* later calibration
C38_TwoWorkers ==
    /\ Cardinality(ActiveWorkers) = 2
    /\ \E r \in cad.results : r.worker = 1
    /\ \E r \in cad.results : r.worker = 2

\* the stopped worker has cleared the running flag of the later calibration
C38_FlagClearedByOldWorker ==
    /\ cad.cleared_by = 1 /\ ~cad.running
    /\ cad.workers[2].pc \in {"loop", "test"}

----------------------------------------------------------------------------
(* The HTTP API: the request handlers with their validation and error branches *)

MaxApiRequests == 2
MaxApiRx == 2

ApiUnchanged ==
    UNCHANGED <<now, seen_packets, tx_history, rx_count, forwarded_count,
                dropped_count, recent_packets, tasks, cfg_changes, forwarded_frames, last,
                adverts, advert_obs, stored_keys, keys_cache, router, radio, calc, discovery,
                mqtt, storage, timer, cad>>

\* the body has no such field
Absent == "absent"

\* APIEndpoints._error and _success, lines 102-108
error_envelope(a, msg) == [a EXCEPT !.success = FALSE, !.error = msg]
success_envelope(a) == [a EXCEPT !.success = TRUE, !.error = None]

\* a set_mode that takes any string
valid_mode_any(new_mode) == TRUE

\* set_mode, line 192: new_mode in ["forward", "monitor"]
valid_mode(new_mode) == new_mode \in {"forward", "monitor"}

\* APIEndpoints.set_mode, lines 187-201; method is the HTTP method, mode the "mode" field of
\* the JSON body (data.get("mode", "forward"))
PostSetMode(method, mode) ==
    /\ api.count < MaxApiRequests
    /\ LET new_mode == IF mode = Absent THEN "forward" ELSE mode
           a == [api EXCEPT !.request = "set_mode", !.input = mode, !.save_ok = TRUE,
                            !.before = config, !.count = @ + 1]
       IN  IF method # "POST"
           THEN /\ api' = error_envelope(a, "Method not allowed")
                /\ UNCHANGED config
           ELSE IF ~valid_mode(new_mode)
           THEN /\ api' = error_envelope(a, "Invalid mode")
                /\ UNCHANGED config
           ELSE /\ config' = [config EXCEPT !.mode = new_mode]
                /\ api' = success_envelope(a)
    /\ ApiUnchanged

\* global_flood_policy, lines 831-832: isinstance(global_flood_allow, bool); the JSON
\* values of the body field are written "true", "false" and, for a string, "yes"
is_bool(value) == value \in {"true", "false"}

\* APIEndpoints.global_flood_policy, lines 814-861, with _save_config_to_file, lines 531-541:
\* value is the "global_flood_allow" field of the body, save_ok whether writing the
\* config file succeeded
PostGlobalFloodPolicy(method, value, save_ok) ==
    /\ api.count < MaxApiRequests
    /\ LET a == [api EXCEPT !.request = "global_flood_policy", !.input = value,
                            !.save_ok = TRUE, !.before = config, !.count = @ + 1]
       IN  IF method # "POST"
           THEN /\ api' = error_envelope(a, "Method not supported")
                /\ UNCHANGED config
           ELSE IF value = Absent
           THEN /\ api' = error_envelope(a, "Missing required field")
                /\ UNCHANGED config
           ELSE IF ~is_bool(value)
           THEN /\ api' = error_envelope(a, "must be a boolean value")
                /\ UNCHANGED config
           ELSE /\ config' = [config EXCEPT !.global_flood_allow = (value = "true")]
                /\ api' = IF save_ok THEN success_envelope(a)
                          ELSE error_envelope([a EXCEPT !.save_ok = FALSE],
                                              "Failed to save configuration to file")
    /\ ApiUnchanged

ApiPackets ==
    { Pkt(ROUTE_TYPE_FLOOD, PAYLOAD_TYPE_TXT, pl, <<OtherHash>>, 0, 0) : pl \in {"A", "B"} }

RouteApiPacket(p) == rx_count < MaxApiRx /\ Route(p) /\ UNCHANGED router

NextApi ==
    \/ \E method \in {"POST", "GET"}, mode \in {"forward", "monitor", "off", Absent} :
          PostSetMode(method, mode)
    \/ \E method \in {"POST", "GET"}, value \in {"true", "false", "yes", Absent},
          save_ok \in BOOLEAN :
          PostGlobalFloodPolicy(method, value, save_ok)
    \/ \E p \in ApiPackets : RouteApiPacket(p)
    \/ \E i \in 1..Len(tasks) : StartSend(i)
    \/ \E i \in 1..Len(tasks), sent_ok \in BOOLEAN : DelayedSend(i, sent_ok)

SpecApi == Init /\ [][NextApi]_vars

\* C39: when writing the config file fails during POST global_flood_policy, the endpoint
\* returns an error envelope and mesh.global_flood_allow of the running config keeps the
\* value it had before the request.
C39_FailedSaveKeepsPolicy ==
    (api.request = "global_flood_policy" /\ ~api.save_ok) =>
        /\ ~api.success /\ api.error # None
        /\ config.global_flood_allow = api.before.global_flood_allow

\* the envelope half of it
C39_FailedSaveReturnsError ==
    (api.request = "global_flood_policy" /\ ~api.save_ok) =>
        ~api.success /\ api.error # None

\* the save failed, the response is an error, and a flood frame has been dropped under
\* the policy the request asked for
C39_PolicyLiveAfterError ==
    /\ api.request = "global_flood_policy" /\ ~api.save_ok /\ ~api.success
    /\ api.before.global_flood_allow /\ ~config.global_flood_allow
    /\ last.valid /\ ~last.record.transmitted /\ ~last.cfg.global_flood_allow
    /\ last.record.drop_reason # "Duplicate"

\* C40: POST set_mode with a mode other than "forward" and "monitor" returns an error
\* envelope (success false) and leaves repeater.mode as it was.
C40_InvalidModeRejected ==
    (api.request = "set_mode" /\ api.input \notin {"forward", "monitor", Absent}) =>
        /\ ~api.success /\ api.error # None
        /\ config.mode = api.before.mode

\* C40 witness: a POST with mode "off" was answered with the invalid-mode error while the
\* node was in monitor mode
C40_Witness ==
    /\ api.request = "set_mode" /\ api.input = "off" /\ api.error = "Invalid mode"
    /\ config.mode = "monitor"

====
